---- MODULE Spec2Model ----
(***************************************************************************)
(* Model of the Lichess game scraper: the two Cloud Function handlers      *)
(* fetchLichessGame (index.js) and fetchLichessGameAdvanced                *)
(* (index-advanced.js), their in-page extraction, and the renderer         *)
(* (puppeteer) seen as an environment whose calls succeed or throw.        *)
(***************************************************************************)
EXTENDS Integers, Sequences, FiniteSets, TLC

(***************************************************************************)
(* JavaScript values                                                       *)
(***************************************************************************)
\* The value of a missing property / parameter.
Undefined == "<undefined>"

\* JavaScript null inside an envelope (objects are records, so null is one too).
JSNull == [null |-> TRUE]

\* The empty object literal {}.
EmptyObject == <<>>

\* JavaScript truthiness of a string-or-undefined value.
Truthy(v) == v # Undefined /\ v # ""

\* a || b
OrElse(a, b) == IF Truthy(a) THEN a ELSE b

Min(a, b) == IF a < b THEN a ELSE b

\* String.prototype.includes
Includes(s, sub) ==
    \E i \in 1..(Len(s) - Len(sub) + 1) : SubSeq(s, i, i + Len(sub) - 1) = sub

\* String.prototype.startsWith
StartsWith(s, pre) == Len(s) >= Len(pre) /\ SubSeq(s, 1, Len(pre)) = pre

\* String.prototype.substring(0, n)
\* As Substring0, but the string is not cut.
Substring0Whole(s, n) == s

Substring0(s, n) == SubSeq(s, 1, Min(n, Len(s)))

UpperChars == <<"A","B","C","D","E","F","G","H","I","J","K","L","M",
                "N","O","P","Q","R","S","T","U","V","W","X","Y","Z">>
LowerChars == <<"a","b","c","d","e","f","g","h","i","j","k","l","m",
                "n","o","p","q","r","s","t","u","v","w","x","y","z">>

LowerChar(c) ==
    IF \E i \in 1..26 : UpperChars[i] = c
    THEN LowerChars[CHOOSE i \in 1..26 : UpperChars[i] = c]
    ELSE c

\* String.prototype.toLowerCase
RECURSIVE ToLowerCase(_)
ToLowerCase(s) ==
    IF Len(s) = 0 THEN ""
    ELSE LowerChar(SubSeq(s, 1, 1)) \o ToLowerCase(SubSeq(s, 2, Len(s)))

IsSpace(c) == c = " " \/ c = "\n" \/ c = "\t"

\* String.prototype.trim
RECURSIVE TrimStart(_)
TrimStart(s) ==
    IF Len(s) > 0 /\ IsSpace(SubSeq(s, 1, 1)) THEN TrimStart(SubSeq(s, 2, Len(s))) ELSE s

RECURSIVE TrimEnd(_)
TrimEnd(s) ==
    IF Len(s) > 0 /\ IsSpace(SubSeq(s, Len(s), Len(s)))
    THEN TrimEnd(SubSeq(s, 1, Len(s) - 1)) ELSE s

Trim(s) == TrimEnd(TrimStart(s))

\* Array.prototype.map on sequences (filter is SelectSeq)
Map(seq, F(_)) == [i \in 1..Len(seq) |-> F(seq[i])]

\* obj[key] = val on an object modelled as a function from property names
Put(obj, key, val) ==
    [k \in (DOMAIN obj) \cup {key} |-> IF k = key THEN val ELSE obj[k]]

(***************************************************************************)
(* The rendered page: document, window and localStorage                    *)
(***************************************************************************)
\* Value of attribute name of element el, Undefined when the element has none.
GetAttribute(el, name) ==
    IF \E i \in 1..Len(el.attributes) : el.attributes[i].name = name
    THEN el.attributes[CHOOSE i \in 1..Len(el.attributes) : el.attributes[i].name = name].value
    ELSE Undefined

HasAttribute(el, name) == GetAttribute(el, name) # Undefined

\* el.className and el.id: the reflected attributes, "" when missing.
ClassName(el) == IF HasAttribute(el, "class") THEN GetAttribute(el, "class") ELSE ""
ElementId(el) == IF HasAttribute(el, "id") THEN GetAttribute(el, "id") ELSE ""

\* The class tokens of a class attribute value (split on white space).
RECURSIVE ClassTokens(_, _)
ClassTokens(s, cur) ==
    IF Len(s) = 0 THEN (IF cur = "" THEN {} ELSE {cur})
    ELSE IF IsSpace(SubSeq(s, 1, 1))
         THEN (IF cur = "" THEN {} ELSE {cur}) \cup ClassTokens(SubSeq(s, 2, Len(s)), "")
         ELSE ClassTokens(SubSeq(s, 2, Len(s)), cur \o SubSeq(s, 1, 1))

HasClass(el, c) == c \in ClassTokens(ClassName(el), "")

\* The selectors the two extraction functions pass to querySelectorAll.
\* el.within is the set of class tokens carried by the element's ancestors.
Matches(el, selector) ==
    CASE selector = ".moves move" -> el.tagName = "MOVE" /\ "moves" \in el.within
      [] selector = ".moves move, move" -> el.tagName = "MOVE"
      [] selector = ".rmoves move" -> el.tagName = "MOVE" /\ "rmoves" \in el.within
      [] selector = "[data-analysis]" -> HasAttribute(el, "data-analysis")
      [] selector = "[data-eval], .eval, .evaluation" ->
            HasAttribute(el, "data-eval") \/ HasClass(el, "eval") \/ HasClass(el, "evaluation")
      [] selector = ".ruser, .player" -> HasClass(el, "ruser") \/ HasClass(el, "player")
      [] selector = "[data-lichess-tools], [data-extension], [class*=\"extension\"]" ->
            \/ HasAttribute(el, "data-lichess-tools")
            \/ HasAttribute(el, "data-extension")
            \/ (HasAttribute(el, "class") /\ Includes(GetAttribute(el, "class"), "extension"))
      [] selector = "[data-lichess-tools]" -> HasAttribute(el, "data-lichess-tools")
      [] selector = "[data-extension]" -> HasAttribute(el, "data-extension")
      [] selector = "[class*=\"extension\"]" ->
            HasAttribute(el, "class") /\ Includes(GetAttribute(el, "class"), "extension")
      [] selector = "[class*=\"tool\"]" ->
            HasAttribute(el, "class") /\ Includes(GetAttribute(el, "class"), "tool")
      [] selector = "[class*=\"enhanced\"]" ->
            HasAttribute(el, "class") /\ Includes(GetAttribute(el, "class"), "enhanced")
      [] selector = "[id*=\"extension\"]" ->
            HasAttribute(el, "id") /\ Includes(GetAttribute(el, "id"), "extension")
      [] selector = "[id*=\"tool\"]" ->
            HasAttribute(el, "id") /\ Includes(GetAttribute(el, "id"), "tool")
      [] selector = "script:not([src])" -> el.tagName = "SCRIPT" /\ ~HasAttribute(el, "src")
      [] OTHER -> FALSE

\* Result of a call that may throw: a value, or a thrown error with a message.
Ok(v) == [threw |-> FALSE, message |-> "", value |-> v]
Thrown(msg) == [threw |-> TRUE, message |-> msg, value |-> JSNull]

\* A page's field throws names the one underlying query that throws in that
\* page (NoThrow when none does): a selector, or one of the names below.
NoThrow == "<none>"

\* document.querySelectorAll(selector): the matching elements in document order
QuerySelectorAll(p, selector) ==
    IF p.throws = selector
    THEN Thrown("querySelectorAll failed: " \o selector)
    ELSE Ok(SelectSeq(p.dom, LAMBDA el : Matches(el, selector)))

\* document.getElementById(id): the first element with that id, or null
GetElementById(p, id) ==
    IF p.throws = "getElementById"
    THEN Thrown("getElementById failed")
    ELSE LET found == SelectSeq(p.dom, LAMBDA el : ElementId(el) = id)
         IN  Ok(IF found = <<>> THEN JSNull ELSE Head(found))

\* Object.keys(window): the enumerable global names, in order
WindowKeys(p) ==
    IF p.throws = "Object.keys(window)"
    THEN Thrown("Object.keys failed")
    ELSE Ok([i \in 1..Len(p.window) |-> p.window[i].key])

\* The global binding named key.
WindowEntry(p, key) == p.window[CHOOSE i \in 1..Len(p.window) : p.window[i].key = key]

\* JSON.parse, on the texts that occur in the modelled pages: every other
\* text is a SyntaxError.
JSONTexts ==
    [text \in {"{\"game\":{\"id\":\"abc\",\"winner\":\"white\"}}",
               "{\"id\":\"abc\"}", "[1,2]", "42"} |->
        CASE text = "{\"game\":{\"id\":\"abc\",\"winner\":\"white\"}}" ->
                 [game |-> [id |-> "abc", winner |-> "white"]]
          [] text = "{\"id\":\"abc\"}" -> [id |-> "abc"]
          [] text = "[1,2]" -> [array |-> <<1, 2>>]
          [] text = "42" -> [number |-> 42]]

JSONParse(text) ==
    IF text \in DOMAIN JSONTexts THEN Ok(JSONTexts[text])
    ELSE Thrown("Unexpected token in JSON")

\* typeof of a global binding; kind is the binding's kind, "null" for null.
TypeOf(entry) == IF entry.kind = "null" THEN "object" ELSE entry.kind

\* window[key]; the read throws when the page names it as its failing query.
ReadGlobal(p, key) ==
    IF p.throws = "window." \o key
    THEN Thrown("property access failed: " \o key)
    ELSE Ok(WindowEntry(p, key))

\* A value stored in extensionData: its typeof and a literal denoting it.
JSValue(t, v) == [t |-> t, v |-> v]

\* JSON.parse(JSON.stringify(value)) on the object values of the modelled
\* pages: function-valued properties are dropped, a circular object throws.
JSONRoundTrip(literal) ==
    CASE literal = "{marker:true}" -> Ok("{marker:true}")
      [] literal = "{a:1,f:function(){}}" -> Ok("{a:1}")
      [] literal = "{}" -> Ok("{}")
      [] literal = "null" -> Ok("null")
      [] OTHER -> Thrown("Converting circular structure to JSON")

\* Run the rest of a function body unless an earlier statement threw.
Then(res, Rest(_)) == IF res.threw THEN res ELSE Rest(res.value)

(***************************************************************************)
(* The extraction of fetchLichessGame (index.js), run in the page          *)
(***************************************************************************)
BasicTextLimit == 500

BasicInitialData ==
    [pageInitData |-> JSNull, extensionData |-> JSNull, additionalData |-> EmptyObject]

\* As PageInitProbe, but text that fails to parse is stored as it is.
PageInitProbeKeepsText(p, data) ==
    LET pageInitScript == GetElementById(p, "page-init-data") IN
    IF pageInitScript.threw THEN pageInitScript
    ELSE IF pageInitScript.value = JSNull THEN Ok(data)
    ELSE LET parsed == JSONParse(Trim(pageInitScript.value.textContent)) IN
         IF parsed.threw
         THEN Ok([data EXCEPT !.pageInitData =
                     [t |-> "string", v |-> Trim(pageInitScript.value.textContent)]])
         ELSE Ok([data EXCEPT !.pageInitData = parsed.value])

\* const pageInitScript = ...; if (pageInitScript) { try { ... } catch {} }
PageInitProbe(p, data) ==
    LET pageInitScript == GetElementById(p, "page-init-data") IN
    IF pageInitScript.threw THEN pageInitScript
    ELSE IF pageInitScript.value = JSNull THEN Ok(data)
    ELSE LET parsed == JSONParse(Trim(pageInitScript.value.textContent)) IN
         IF parsed.threw THEN Ok(data)
         ELSE Ok([data EXCEPT !.pageInitData = parsed.value])

\* As BasicKeyFilter, but every global name is kept.
BasicKeyFilterAny(key) == TRUE

BasicKeyFilter(key) ==
    \/ Includes(key, "lichess")
    \/ Includes(key, "extension")
    \/ Includes(key, "chess")
    \/ StartsWith(key, "__")

\* windowKeys.forEach(key => { try { ... } catch (e) {} })
RECURSIVE BasicCollectGlobals(_, _, _)
BasicCollectGlobals(p, keys, acc) ==
    IF keys = <<>> THEN acc
    ELSE LET key == Head(keys)
             read == ReadGlobal(p, key)
             next == IF ~read.threw /\ TypeOf(read.value) \in {"object", "string", "number"}
                     THEN Put(acc, key, JSValue(TypeOf(read.value), read.value.value))
                     ELSE acc
         IN  BasicCollectGlobals(p, Tail(keys), next)

BasicWindowProbe(p, data) ==
    LET keys == WindowKeys(p) IN
    IF keys.threw THEN keys
    ELSE LET windowKeys == SelectSeq(keys.value, BasicKeyFilter) IN
         IF Len(windowKeys) > 0
         THEN Ok([data EXCEPT !.extensionData = BasicCollectGlobals(p, windowKeys, EmptyObject)])
         ELSE Ok(data)

BasicTitleUrl(p, data) ==
    Ok([data EXCEPT !.additionalData =
            Put(Put(data.additionalData, "title", p.title), "url", p.url)])

BasicMovesProbe(p, data) ==
    LET moves == QuerySelectorAll(p, ".moves move") IN
    IF moves.threw THEN moves
    ELSE IF Len(moves.value) > 0
    THEN Ok([data EXCEPT !.additionalData =
                Put(data.additionalData, "moves", Map(moves.value, LAMBDA m : m.textContent))])
    ELSE Ok(data)

BasicAnalysisProbe(p, data) ==
    LET analysisElements == QuerySelectorAll(p, "[data-analysis]") IN
    IF analysisElements.threw THEN analysisElements
    ELSE IF Len(analysisElements.value) > 0
    THEN Ok([data EXCEPT !.additionalData =
                Put(data.additionalData, "analysis",
                    Map(analysisElements.value,
                        LAMBDA el : [analysis |-> GetAttribute(el, "data-analysis"),
                                     text |-> el.textContent]))])
    ELSE Ok(data)

BasicCustomProbe(p, data) ==
    LET customDataElements ==
            QuerySelectorAll(p, "[data-lichess-tools], [data-extension], [class*=\"extension\"]") IN
    IF customDataElements.threw THEN customDataElements
    ELSE IF Len(customDataElements.value) > 0
    THEN Ok([data EXCEPT !.additionalData =
                Put(data.additionalData, "extensionElements",
                    Map(customDataElements.value,
                        LAMBDA el : [tagName |-> el.tagName,
                                     className |-> ClassName(el),
                                     attributes |-> el.attributes,
                                     textContent |-> Substring0(el.textContent, BasicTextLimit)]))])
    ELSE Ok(data)

\* page.evaluate(() => { ... return data; }) of fetchLichessGame
BasicExtract(p) ==
    Then(Then(Then(Then(Then(PageInitProbe(p, BasicInitialData),
        LAMBDA d : BasicWindowProbe(p, d)),
        LAMBDA d : BasicTitleUrl(p, d)),
        LAMBDA d : BasicMovesProbe(p, d)),
        LAMBDA d : BasicAnalysisProbe(p, d)),
        LAMBDA d : BasicCustomProbe(p, d))

(***************************************************************************)
(* The extraction of fetchLichessGameAdvanced (index-advanced.js)          *)
(***************************************************************************)
AdvancedTextLimit == 300
FunctionTextLimit == 200

\* el.getAttribute(name) as it appears in the envelope: null when missing.
NullString == "<null>"
AttributeOrNull(el, name) ==
    IF HasAttribute(el, name) THEN GetAttribute(el, name) ELSE NullString

\* As AdvancedInitialData, but the object starts without the cookies key.
AdvancedInitialDataNoCookies ==
    [pageInitData |-> JSNull, extensionData |-> EmptyObject, dom |-> EmptyObject,
     localStorage |-> EmptyObject, computedData |-> EmptyObject]

AdvancedInitialData ==
    [pageInitData |-> JSNull, extensionData |-> EmptyObject, dom |-> EmptyObject,
     localStorage |-> EmptyObject, cookies |-> EmptyObject, computedData |-> EmptyObject]

\* As AdvancedKeyFilter, but without the underscore-prefix clauses.
AdvancedKeyFilterKeywordsOnly(key) ==
    LET keyLower == ToLowerCase(key) IN
    \/ Includes(keyLower, "lichess")
    \/ Includes(keyLower, "extension")
    \/ Includes(keyLower, "chess")
    \/ Includes(keyLower, "tool")
    \/ Includes(keyLower, "plugin")

AdvancedKeyFilter(key) ==
    LET keyLower == ToLowerCase(key) IN
    \/ Includes(keyLower, "lichess")
    \/ Includes(keyLower, "extension")
    \/ Includes(keyLower, "chess")
    \/ Includes(keyLower, "tool")
    \/ Includes(keyLower, "plugin")
    \/ StartsWith(key, "__")
    \/ StartsWith(key, "_")

\* The body of the try block for one key: the value to store, Ok(JSNull)
\* when nothing is stored, Thrown when the read or the serialization throws.
AdvancedGlobalValue(p, key) ==
    LET read == ReadGlobal(p, key) IN
    IF read.threw THEN read
    ELSE LET value == read.value IN
         IF value.kind \in {"null", "undefined"} THEN Ok(JSNull)
         ELSE IF TypeOf(value) = "object"
         THEN LET copy == JSONRoundTrip(value.value) IN
              IF copy.threw THEN copy ELSE Ok(JSValue("object", copy.value))
         ELSE IF TypeOf(value) = "function"
         THEN Ok(JSValue("string", Substring0(value.value, FunctionTextLimit)))
         ELSE Ok(JSValue(TypeOf(value), value.value))

\* interestingKeys.forEach(key => { try { ... } catch (e) { ... } })
RECURSIVE AdvancedCollectGlobals(_, _, _)
AdvancedCollectGlobals(p, keys, acc) ==
    IF keys = <<>> THEN acc
    ELSE LET key == Head(keys)
             stored == AdvancedGlobalValue(p, key)
             next == IF stored.threw
                     THEN Put(acc, key, JSValue("string", "[Error accessing property]"))
                     ELSE IF stored.value = JSNull THEN acc
                     ELSE Put(acc, key, stored.value)
         IN  AdvancedCollectGlobals(p, Tail(keys), next)

AdvancedWindowProbe(p, data) ==
    LET windowKeys == WindowKeys(p) IN
    IF windowKeys.threw THEN windowKeys
    ELSE LET interestingKeys == SelectSeq(windowKeys.value, AdvancedKeyFilter) IN
         Ok([data EXCEPT !.extensionData =
                AdvancedCollectGlobals(p, interestingKeys, data.extensionData)])

\* As StorageKeyFilter, but the key is compared without lower-casing it.
StorageKeyFilterCaseSensitive(key) ==
    \/ Includes(key, "lichess")
    \/ Includes(key, "chess")
    \/ Includes(key, "extension")

StorageKeyFilter(key) ==
    \/ Includes(ToLowerCase(key), "lichess")
    \/ Includes(ToLowerCase(key), "chess")
    \/ Includes(ToLowerCase(key), "extension")

\* Object.keys(localStorage).forEach(key => { try { ... } catch (e) {} })
RECURSIVE CollectStorage(_, _)
CollectStorage(items, acc) ==
    IF items = <<>> THEN acc
    ELSE CollectStorage(Tail(items),
            IF StorageKeyFilter(Head(items).key)
            THEN Put(acc, Head(items).key, Head(items).value)
            ELSE acc)

\* try { Object.keys(localStorage)... } catch (e) { console.error(...) }
StorageProbe(p, data) ==
    IF p.throws = "localStorage" THEN Ok(data)
    ELSE Ok([data EXCEPT !.localStorage = CollectStorage(p.localStorage, data.localStorage)])

AdvancedTitleUrl(p, data) ==
    Ok([data EXCEPT !.dom = Put(Put(data.dom, "title", p.title), "url", p.url)])

AdvancedMovesProbe(p, data) ==
    LET moveElements == QuerySelectorAll(p, ".moves move, move") IN
    IF moveElements.threw THEN moveElements
    ELSE IF Len(moveElements.value) > 0
    THEN Ok([data EXCEPT !.dom =
                Put(data.dom, "moves", Map(moveElements.value, LAMBDA m : Trim(m.textContent)))])
    ELSE Ok(data)

PlayersProbe(p, data) ==
    LET playerElements == QuerySelectorAll(p, ".ruser, .player") IN
    IF playerElements.threw THEN playerElements
    ELSE IF Len(playerElements.value) > 0
    THEN Ok([data EXCEPT !.dom =
                Put(data.dom, "players",
                    Map(playerElements.value,
                        LAMBDA el : [text |-> Trim(el.textContent), classes |-> ClassName(el)]))])
    ELSE Ok(data)

EvaluationsProbe(p, data) ==
    LET evalElements == QuerySelectorAll(p, "[data-eval], .eval, .evaluation") IN
    IF evalElements.threw THEN evalElements
    ELSE IF Len(evalElements.value) > 0
    THEN Ok([data EXCEPT !.dom =
                Put(data.dom, "evaluations",
                    Map(evalElements.value,
                        LAMBDA el : [eval |-> AttributeOrNull(el, "data-eval"),
                                     text |-> Trim(el.textContent)]))])
    ELSE Ok(data)

extensionSelectors ==
    << "[data-lichess-tools]", "[data-extension]", "[class*=\"extension\"]",
       "[class*=\"tool\"]", "[class*=\"enhanced\"]", "[id*=\"extension\"]", "[id*=\"tool\"]" >>

\* selector.replace(/[\[\]"'*]/g, '')
RECURSIVE SelectorKey(_)
SelectorKey(s) ==
    IF Len(s) = 0 THEN ""
    ELSE (IF SubSeq(s, 1, 1) \in {"[", "]", "\"", "'", "*"} THEN "" ELSE SubSeq(s, 1, 1))
         \o SelectorKey(SubSeq(s, 2, Len(s)))

\* extensionSelectors.forEach(selector => { try { ... } catch (e) {} })
RECURSIVE CollectSelectors(_, _, _)
CollectSelectors(p, selectors, dom) ==
    IF selectors = <<>> THEN dom
    ELSE LET selector == Head(selectors)
             elements == QuerySelectorAll(p, selector)
             next == IF ~elements.threw /\ Len(elements.value) > 0
                     THEN Put(dom, SelectorKey(selector),
                              Map(elements.value,
                                  LAMBDA el : [tag |-> el.tagName,
                                               id |-> ElementId(el),
                                               classes |-> ClassName(el),
                                               attributes |-> el.attributes,
                                               text |-> Substring0(el.textContent, AdvancedTextLimit)]))
                     ELSE dom
         IN  CollectSelectors(p, Tail(selectors), next)

AdvancedCustomProbe(p, data) ==
    Ok([data EXCEPT !.dom = CollectSelectors(p, extensionSelectors, data.dom)])

MoveCountProbe(p, data) ==
    LET rmoves == QuerySelectorAll(p, ".rmoves move") IN
    IF rmoves.threw THEN rmoves
    ELSE IF Len(rmoves.value) > 0
    THEN Ok([data EXCEPT !.computedData = Put(data.computedData, "moveCount", Len(rmoves.value))])
    ELSE Ok(data)

\* As CollectJsonScripts, but the scan ends at the first script that fails
\* to parse.
RECURSIVE CollectJsonScriptsStopOnError(_, _)
CollectJsonScriptsStopOnError(scripts, jsonScripts) ==
    IF scripts = <<>> THEN jsonScripts
    ELSE LET content == Trim(Head(scripts).textContent)
             parsed == JSONParse(content)
         IN  IF StartsWith(content, "{") \/ StartsWith(content, "[")
             THEN IF parsed.threw THEN jsonScripts
                  ELSE CollectJsonScriptsStopOnError(Tail(scripts), Append(jsonScripts, parsed.value))
             ELSE CollectJsonScriptsStopOnError(Tail(scripts), jsonScripts)

\* scripts.forEach(script => { ... try { jsonScripts.push(JSON.parse(content)) } catch {} })
RECURSIVE CollectJsonScripts(_, _)
CollectJsonScripts(scripts, jsonScripts) ==
    IF scripts = <<>> THEN jsonScripts
    ELSE LET content == Trim(Head(scripts).textContent)
             parsed == JSONParse(content)
             next == IF (StartsWith(content, "{") \/ StartsWith(content, "[")) /\ ~parsed.threw
                     THEN Append(jsonScripts, parsed.value)
                     ELSE jsonScripts
         IN  CollectJsonScripts(Tail(scripts), next)

JsonScriptsProbe(p, data) ==
    LET scripts == QuerySelectorAll(p, "script:not([src])") IN
    IF scripts.threw THEN scripts
    ELSE LET jsonScripts == CollectJsonScripts(scripts.value, <<>>) IN
         IF Len(jsonScripts) > 0
         THEN Ok([data EXCEPT !.computedData = Put(data.computedData, "jsonScripts", jsonScripts)])
         ELSE Ok(data)

\* page.evaluate(() => { ... return data; }) of fetchLichessGameAdvanced
AdvancedExtract(p) ==
    Then(Then(Then(Then(Then(Then(Then(Then(Then(PageInitProbe(p, AdvancedInitialData),
        LAMBDA d : AdvancedWindowProbe(p, d)),
        LAMBDA d : StorageProbe(p, d)),
        LAMBDA d : AdvancedTitleUrl(p, d)),
        LAMBDA d : AdvancedMovesProbe(p, d)),
        LAMBDA d : PlayersProbe(p, d)),
        LAMBDA d : EvaluationsProbe(p, d)),
        LAMBDA d : AdvancedCustomProbe(p, d)),
        LAMBDA d : MoveCountProbe(p, d)),
        LAMBDA d : JsonScriptsProbe(p, d))

(***************************************************************************)
(* Numbers and parseInt                                                    *)
(***************************************************************************)
\* A JavaScript number: NaN, or an integer.
NaN == [nan |-> TRUE, n |-> 0]
Num(n) == [nan |-> FALSE, n |-> n]

DigitChars == "0123456789"
IsDigit(c) == \E d \in 0..9 : SubSeq(DigitChars, d + 1, d + 1) = c
DigitValue(c) == CHOOSE d \in 0..9 : SubSeq(DigitChars, d + 1, d + 1) = c

\* The value of the longest prefix of s made of decimal digits, after acc.
RECURSIVE DigitsPrefix(_, _)
DigitsPrefix(s, acc) ==
    IF Len(s) > 0 /\ IsDigit(SubSeq(s, 1, 1))
    THEN DigitsPrefix(SubSeq(s, 2, Len(s)), 10 * acc + DigitValue(SubSeq(s, 1, 1)))
    ELSE acc

\* parseInt(s): leading white space, an optional sign, then decimal digits.
ParseInt(s) ==
    LET t == TrimStart(s)
        negative == Len(t) > 0 /\ SubSeq(t, 1, 1) = "-"
        signed == Len(t) > 0 /\ SubSeq(t, 1, 1) \in {"-", "+"}
        digits == IF signed THEN SubSeq(t, 2, Len(t)) ELSE t
    IN  IF Len(digits) = 0 \/ ~IsDigit(SubSeq(digits, 1, 1)) THEN NaN
        ELSE Num((IF negative THEN -1 ELSE 1) * DigitsPrefix(digits, 0))

(***************************************************************************)
(* Requests                                                                *)
(***************************************************************************)
Variants == {"basic", "advanced"}
Methods == {"OPTIONS", "GET", "POST"}

\* Scripts a caller may send as customScript, and what evaluating each in
\* the page does: set a global, throw, or fail to parse.
MarkerScript == "window.__marker = { marker: true }"
ThrowingScript == "throw new Error('boom')"
UnparsableScript == "function ("
PlainGlobalScript == "window.marker = { marker: true }"

SetGlobal(p, entry) ==
    [p EXCEPT !.window =
        SelectSeq(p.window, LAMBDA e : e.key # entry.key) \o <<entry>>]

\* The effect of evaluating the caller's script text in the page.
RunScript(script, p) ==
    CASE script = MarkerScript ->
            Ok(SetGlobal(p, [key |-> "__marker", kind |-> "object", value |-> "{marker:true}"]))
      [] script = PlainGlobalScript ->
            Ok(SetGlobal(p, [key |-> "marker", kind |-> "object", value |-> "{marker:true}"]))
      [] script = ThrowingScript -> Thrown("boom")
      [] script = UnparsableScript -> Thrown("Unexpected token '('")
      [] OTHER -> Ok(p)

\* req.query / req.body of the requests considered; a missing field (or a
\* missing body) reads as undefined.  Only a POST request carries a body.
RequestInputs ==
    {rq \in [variant : Variants,
             method : Methods,
             queryGameId : {Undefined, "", "abc123"},
             bodyGameId : {Undefined, "", "xyz789"},
             customScript : {Undefined, "", MarkerScript, PlainGlobalScript,
                             ThrowingScript, UnparsableScript},
             queryWaitTime : {Undefined, "2000"},
             bodyWaitTime : {Undefined, "15s", "soon"}] :
        rq.method # "POST" =>
            /\ rq.bodyGameId = Undefined
            /\ rq.customScript = Undefined
            /\ rq.bodyWaitTime = Undefined}

\* const gameId = req.query.gameId || req.body?.gameId;
GameIdOf(rq) == OrElse(rq.queryGameId, rq.bodyGameId)

\* const waitTime = parseInt(req.query.waitTime || req.body?.waitTime || '5000');
WaitTimeOf(rq) == ParseInt(OrElse(OrElse(rq.queryWaitTime, rq.bodyWaitTime), "5000"))

BasicWaitTime == 3000

\* As MissingGameId, but only an undefined gameId counts as missing.
MissingGameIdOnlyUndefined(rq) == GameIdOf(rq) = Undefined

\* if (!gameId)
MissingGameId(rq) == ~Truthy(GameIdOf(rq))

\* As ShouldInject, but any customScript other than undefined is injected.
ShouldInjectWhenDefined(rq) == rq.variant = "advanced" /\ rq.customScript # Undefined

\* if (customScript), which only the advanced handler has
ShouldInject(rq) == rq.variant = "advanced" /\ Truthy(rq.customScript)

\* const url = `https://lichess.org/${gameId}`;
UrlOf(rq) == "https://lichess.org/" \o GameIdOf(rq)

(***************************************************************************)
(* The pages the site serves                                               *)
(***************************************************************************)
Attr(name, value) == [name |-> name, value |-> value]

Element(tagName, attributes, textContent, within) ==
    [tagName |-> tagName, attributes |-> attributes,
     textContent |-> textContent, within |-> within]

\* Number of ten-character blocks in the long element text.
LongTextBlocks == 52

RECURSIVE Repeat(_, _)
Repeat(s, n) == IF n = 0 THEN "" ELSE s \o Repeat(s, n - 1)

LongText == Repeat("0123456789", LongTextBlocks)

ValidInitText == "  {\"game\":{\"id\":\"abc\",\"winner\":\"white\"}}\n"
InvalidInitText == "{not json"

\* The script element carrying the page payload; no element when initText is
\* undefined.
InitElement(initText) ==
    IF initText = Undefined THEN <<>>
    ELSE <<Element("SCRIPT", <<Attr("id", "page-init-data")>>, initText, {})>>

GameDom(initText) ==
    InitElement(initText) \o
    << Element("MOVE", <<>>, "e4", {"moves", "rmoves"}),
       Element("MOVE", <<>>, " e5 ", {"rmoves"}),
       Element("DIV", <<Attr("data-analysis", "+0.3")>>, "best", {}),
       Element("DIV", <<Attr("class", "lt-extension panel"), Attr("data-lichess-tools", "1")>>,
               LongText, {}),
       Element("DIV", <<Attr("class", "ruser player")>>, " Alice ", {}),
       Element("SPAN", <<Attr("class", "eval")>>, "0.3", {}),
       Element("DIV", <<Attr("id", "toolbar")>>, "tools", {}),
       Element("SCRIPT", <<>>, "[1,2]", {}),
       Element("SCRIPT", <<>>, "{broken", {}),
       Element("SCRIPT", <<Attr("src", "app.js")>>, "[1,2]", {}),
       Element("SCRIPT", <<>>, "42", {}),
       Element("SCRIPT", <<>>, " {\"id\":\"abc\"}\n", {}),
       Element("SCRIPT", <<>>, "console.log(1)", {}) >>

\* Length of the serialized element: <tag name="value">text</tag>
RECURSIVE AttributesLength(_)
AttributesLength(attributes) ==
    IF attributes = <<>> THEN 0
    ELSE Len(Head(attributes).name) + Len(Head(attributes).value) + 4
         + AttributesLength(Tail(attributes))

ElementHtmlLength(el) ==
    2 * Len(el.tagName) + 5 + AttributesLength(el.attributes) + Len(el.textContent)

\* (await page.content()).length: the serialized document around its elements
RECURSIVE HtmlLength(_)
HtmlLength(dom) ==
    IF dom = <<>> THEN Len("<html><head></head><body></body></html>")
    ELSE ElementHtmlLength(Head(dom)) + HtmlLength(Tail(dom))

GameWindow ==
    << [key |-> "lichessTools", kind |-> "object", value |-> "{a:1,f:function(){}}"],
       [key |-> "jQuery", kind |-> "function", value |-> "function(){}"],
       [key |-> "__cfg", kind |-> "number", value |-> "7"],
       [key |-> "_priv", kind |-> "string", value |-> "s"],
       [key |-> "ChessPlugin", kind |-> "function", value |-> "function ChessPlugin(){}"],
       [key |-> "chessNull", kind |-> "null", value |-> "null"],
       [key |-> "dataLayer", kind |-> "object", value |-> "{}"],
       [key |-> "isChess", kind |-> "boolean", value |-> "true"] >>

\* A global that refers to itself, which no serialization can copy.
CircularLiteral == "<circular>"
CyclicWindow ==
    GameWindow \o <<[key |-> "lichessLoop", kind |-> "object", value |-> CircularLiteral]>>

GameStorage ==
    << [key |-> "lichess.prefs", value |-> "dark"],
       [key |-> "theme", value |-> "x"],
       [key |-> "Chess-Ext", value |-> "on"] >>

GamePage(initText) ==
    [dom |-> GameDom(initText), window |-> GameWindow, localStorage |-> GameStorage,
     title |-> "Game abc", url |-> "", htmlLength |-> HtmlLength(GameDom(initText)),
     throws |-> NoThrow]

\* A page where nothing the probes look for exists.
BarePage ==
    [dom |-> <<>>,
     window |-> <<[key |-> "jQuery", kind |-> "function", value |-> "function(){}"]>>,
     localStorage |-> <<>>,
     title |-> "lichess.org", url |-> "", htmlLength |-> HtmlLength(<<>>), throws |-> NoThrow]

\* The documents the site serves, by name.
BasePage(name) ==
    CASE name = "game" -> GamePage(ValidInitText)
      [] name = "brokenInit" -> GamePage(InvalidInitText)
      [] name = "noInit" -> GamePage(Undefined)
      [] name = "cyclic" -> [GamePage(ValidInitText) EXCEPT !.window = CyclicWindow]
      [] name = "bare" -> BarePage

BasePageNames == {"game", "brokenInit", "noInit", "cyclic", "bare"}

\* The underlying queries that may throw inside the page evaluation.
ThrowPoints ==
    {NoThrow, "getElementById", "Object.keys(window)", "window.lichessTools", "localStorage",
     ".moves move", "[data-analysis]",
     "[data-lichess-tools], [data-extension], [class*=\"extension\"]",
     ".moves move, move", ".ruser, .player", "[data-eval], .eval, .evaluation",
     "[data-lichess-tools]", ".rmoves move", "script:not([src])"}

\* What a navigation may load: a document and the query that throws in it.
\* Every query may throw in the game page and in the bare page; the other
\* documents are served without a throwing query.
PageIds ==
    [base : {"game", "bare"}, throws : ThrowPoints]
    \cup [base : BasePageNames, throws : {NoThrow}]
ServedPage(id) == [BasePage(id.base) EXCEPT !.throws = id.throws]

\* The page without its failing query.
Healthy(p) == [p EXCEPT !.throws = NoThrow]

\* The value page.evaluate resolves to when the callback's return value
\* cannot be copied out of the page.
JSUndefined == [undefined |-> TRUE]

\* The extracted object can be copied out of the page by value: none of the
\* stored globals is a circular object.
Transferable(data) ==
    \/ data.extensionData = JSNull
    \/ \A key \in DOMAIN data.extensionData :
          data.extensionData[key].v # CircularLiteral

\* The extraction a variant runs in the page.
Extract(variant, p) == IF variant = "basic" THEN BasicExtract(p) ELSE AdvancedExtract(p)

(***************************************************************************)
(* The request handlers                                                    *)
(***************************************************************************)
VARIABLES
    req,        \* req[r]: the HTTP request r (method, query, body) and the variant it calls
    pc,         \* pc[r]: where handler invocation r is suspended (the awaited call)
    headers,    \* headers[r]: the response headers set so far (res.set)
    browser,    \* browser[r]: the handler's local variable browser
    renderer,   \* renderer[i]: the browser process launched for invocation i:
                \* "none" (not started), "open" or "closed"
    page,       \* page[r]: the page loaded in r's renderer
    gameData,   \* gameData[r]: the handler's local variable gameData
    error,      \* error[r]: the message of the error caught by the catch block
    log,        \* log[r]: the renderer calls and response sends made so far, in order
    responses,  \* responses[r]: the HTTP responses sent for r, in order
    site        \* the pages (PageIds) the site may serve

\* The Apps Script client (GoogleAppScript.js, GoogleAppScript-advanced.js)
VARIABLES
    entryFn,    \* the function the run was started with
    gameIds,    \* the game ids the run goes through, in order
    index,      \* position in gameIds of the game being processed
    spc,        \* where the script stands (the call it is in)
    rawData,    \* what fetchLichessGameWithExtensions returned for the game
    organized,  \* what fetchLichessToolsData returned for the game
    sheets,     \* the rows of the sheets Basic Info, Moves and Players
    logger,     \* the Logger.log lines written so far, in order
    fetches,    \* the calls of fetchLichessGameWithExtensions, in order
    uncaught    \* the error that ended the script, "" when none did

\* The deployment script (deploy.sh)
VARIABLES
    shpc,       \* the command deploy.sh is at
    env,        \* the shell variables set so far
    files,      \* the files of the working directory: name -> content
    commands,   \* the gcloud commands run so far, in order
    exitStatus  \* the exit status of the script once it has ended

handlerVars ==
    <<req, pc, headers, browser, renderer, page, gameData, error, log, responses, site>>
scriptVars == <<entryFn, gameIds, index, spc, rawData, organized, sheets, logger, fetches,
                uncaught>>
deployVars == <<shpc, env, files, commands, exitStatus>>

vars == <<handlerVars, scriptVars, deployVars>>

\* No handler invocation exists.
HandlerIdle ==
    /\ req = <<>> /\ pc = <<>> /\ headers = <<>> /\ browser = <<>> /\ renderer = <<>>
    /\ page = <<>> /\ gameData = <<>> /\ error = <<>> /\ log = <<>> /\ responses = <<>>
    /\ site = {}

\* No Apps Script run exists.
ScriptIdle ==
    /\ entryFn = "" /\ gameIds = <<>> /\ index = 0 /\ spc = "idle"
    /\ rawData = JSNull /\ organized = JSNull /\ sheets = <<>>
    /\ logger = <<>> /\ fetches = <<>> /\ uncaught = ""

\* deploy.sh is not running.
DeployIdle ==
    /\ shpc = "idle" /\ env = <<>> /\ files = <<>> /\ commands = <<>> /\ exitStatus = -1

Requests == DOMAIN pc

NoPage == [none |-> TRUE]
NoBrowser == JSNull

\* As Launched, but every launch hands out the process of the first request.
LaunchedShared(r) == 1

\* The browser process puppeteer.launch() starts for invocation r: a new
\* process for each call, named after the invocation that started it.
Launched(r) == r

\* The handle the handler holds on a browser process.
BrowserOf(process) == [process |-> process]
NoError == ""

\* Messages of the faults the renderer raises, per call.
FaultMessages(call) ==
    CASE call = "launch" -> {"Failed to launch the browser process!"}
      [] call = "goto" -> {"Navigation timeout of 30000 ms exceeded",
                           "net::ERR_NAME_NOT_RESOLVED"}
      [] call = "close" -> {"Protocol error: Connection closed."}
      [] OTHER -> {"Protocol error (" \o call \o "): Target closed."}

MissingGameIdBody(variant) ==
    IF variant = "basic"
    THEN [error |-> "Missing gameId parameter",
          usage |-> "Call with ?gameId=YOUR_GAME_ID or POST with {\"gameId\": \"YOUR_GAME_ID\"}"]
    ELSE [error |-> "Missing gameId parameter"]

SuccessBody(rq, data) ==
    [success |-> TRUE, gameId |-> GameIdOf(rq), data |-> data, timestamp |-> "ISO-8601"]

\* As ErrorBody, but the error envelope also carries a data field.
ErrorBodyWithData(rq, message) ==
    [success |-> FALSE, error |-> message, gameId |-> GameIdOf(rq), data |-> EmptyObject]

ErrorBody(rq, message) ==
    IF rq.variant = "basic"
    THEN [success |-> FALSE, error |-> message, gameId |-> GameIdOf(rq)]
    ELSE [success |-> FALSE, error |-> message, stack |-> "Error: " \o message,
          gameId |-> GameIdOf(rq)]

\* As CorsHeaders, but no header is set on entry.
CorsHeadersNone == {}

\* res.set('Access-Control-Allow-Origin', '*'), the handler's first statement
CorsHeaders == {<<"Access-Control-Allow-Origin", "*">>}

\* As PreflightHeaders, but without the Access-Control-Max-Age header.
PreflightHeadersNoMaxAge ==
    {<<"Access-Control-Allow-Methods", "GET, POST">>,
     <<"Access-Control-Allow-Headers", "Content-Type">>}

PreflightHeaders ==
    {<<"Access-Control-Allow-Methods", "GET, POST">>,
     <<"Access-Control-Allow-Headers", "Content-Type">>,
     <<"Access-Control-Max-Age", "3600">>}

Response(status, hdrs, body) == [status |-> status, headers |-> hdrs, body |-> body]

Call(name) == [call |-> name]
Sent(status) == [call |-> "res.send", status |-> status]
Threw(source, message) == [call |-> "throw", source |-> source, message |-> message]

\* res.status(status).json(body) / .send(body), which ends the handler.
Respond(r, status, hdrs, body, sofar) ==
    /\ responses' = [responses EXCEPT ![r] = Append(@, Response(status, hdrs, body))]
    /\ log' = [log EXCEPT ![r] = Append(sofar, Sent(status))]
    /\ pc' = [pc EXCEPT ![r] = "done"]

\* The next renderer call is made and awaited.
Await(r, entry, next) ==
    /\ log' = [log EXCEPT ![r] = Append(@, entry)]
    /\ pc' = [pc EXCEPT ![r] = next]
    /\ UNCHANGED responses

\* As Catch, but the 500 response is sent without closing the browser.
CatchWithoutClose(r, source, message) ==
    /\ error' = [error EXCEPT ![r] = message]
    /\ Respond(r, 500, headers[r], ErrorBody(req[r], message),
               Append(log[r], Threw(source, message)))

\* catch (error) { console.error(...); if (browser) { await browser.close(); } ... }
\* up to its first suspension: the second close call, or the 500 response.
\* The log also records the throw: which call threw, and the message.
Catch(r, source, message) ==
    LET sofar == Append(log[r], Threw(source, message)) IN
    /\ error' = [error EXCEPT ![r] = message]
    /\ IF browser[r] # NoBrowser
       THEN /\ log' = [log EXCEPT ![r] = Append(sofar, Call("close"))]
            /\ pc' = [pc EXCEPT ![r] = "catchClose"]
            /\ UNCHANGED responses
       ELSE Respond(r, 500, headers[r], ErrorBody(req[r], message), sofar)

\* The awaited call fails with one of the renderer's faults.
Fails(r, call) ==
    /\ \E message \in FaultMessages(call) : Catch(r, call, message)
    /\ UNCHANGED <<req, headers, browser, renderer, page, gameData, site>>

\* The handler is entered: CORS header, preflight, gameId check, launch call.
Receive(r) ==
    /\ pc[r] = "start"
    /\ LET hdrs == CorsHeaders IN
       IF req[r].method = "OPTIONS"
       THEN /\ headers' = [headers EXCEPT ![r] = hdrs \cup PreflightHeaders]
            /\ Respond(r, 204, hdrs \cup PreflightHeaders, [text |-> ""], log[r])
       ELSE /\ headers' = [headers EXCEPT ![r] = hdrs]
            /\ IF MissingGameId(req[r])
               THEN Respond(r, 400, hdrs, MissingGameIdBody(req[r].variant), log[r])
               ELSE Await(r, Call("launch"), "launch")
    /\ UNCHANGED <<req, browser, renderer, page, gameData, error, site>>
    /\ UNCHANGED <<scriptVars, deployVars>>

\* browser = await puppeteer.launch({...}); then browser.newPage() is called
Launch(r) ==
    /\ pc[r] = "launch"
    /\ \/ /\ browser' = [browser EXCEPT ![r] = BrowserOf(Launched(r))]
          /\ renderer' = [renderer EXCEPT ![Launched(r)] = "open"]
          /\ Await(r, Call("newPage"), "newPage")
          /\ UNCHANGED <<req, headers, page, gameData, error, site>>
       \/ Fails(r, "launch")
    /\ UNCHANGED <<scriptVars, deployVars>>

\* const page = await browser.newPage(); then the next page call
NewPage(r) ==
    /\ pc[r] = "newPage"
    /\ \/ /\ IF req[r].variant = "advanced"
             THEN Await(r, Call("setRequestInterception"), "setRequestInterception")
             ELSE Await(r, Call("setUserAgent"), "setUserAgent")
          /\ UNCHANGED <<req, headers, browser, renderer, page, gameData, error, site>>
       \/ Fails(r, "newPage")
    /\ UNCHANGED <<scriptVars, deployVars>>

\* await page.setRequestInterception(true); page.on('request', ...); (advanced)
SetRequestInterception(r) ==
    /\ pc[r] = "setRequestInterception"
    /\ \/ /\ Await(r, Call("setUserAgent"), "setUserAgent")
          /\ UNCHANGED <<req, headers, browser, renderer, page, gameData, error, site>>
       \/ Fails(r, "setRequestInterception")
    /\ UNCHANGED <<scriptVars, deployVars>>

\* await page.setUserAgent(...); then page.goto(url, ...) is called
SetUserAgent(r) ==
    /\ pc[r] = "setUserAgent"
    /\ \/ /\ Await(r, [call |-> "goto", url |-> UrlOf(req[r])], "goto")
          /\ UNCHANGED <<req, headers, browser, renderer, page, gameData, error, site>>
       \/ Fails(r, "setUserAgent")
    /\ UNCHANGED <<scriptVars, deployVars>>

WaitCall(rq) ==
    [call |-> "waitForTimeout",
     ms |-> IF rq.variant = "basic" THEN Num(BasicWaitTime) ELSE WaitTimeOf(rq)]

\* await page.goto(url, {waitUntil: 'networkidle2', timeout: 30000}); then the
\* injection (advanced, when customScript is truthy) or the settle delay
Goto(r) ==
    /\ pc[r] = "goto"
    /\ \/ /\ \E id \in site :
                page' = [page EXCEPT ![r] = [ServedPage(id) EXCEPT !.url = UrlOf(req[r])]]
          /\ IF ShouldInject(req[r])
             THEN Await(r, [call |-> "evaluate", fn |-> "customScript"], "inject")
             ELSE Await(r, WaitCall(req[r]), "waitForTimeout")
          /\ UNCHANGED <<req, headers, browser, renderer, gameData, error, site>>
       \/ Fails(r, "goto")
    /\ UNCHANGED <<scriptVars, deployVars>>

\* await page.evaluate(customScript); then the settle delay (advanced)
Inject(r) ==
    /\ pc[r] = "inject"
    /\ LET ran == RunScript(req[r].customScript, page[r]) IN
       \/ /\ ~ran.threw
          /\ page' = [page EXCEPT ![r] = ran.value]
          /\ Await(r, WaitCall(req[r]), "waitForTimeout")
          /\ UNCHANGED <<req, headers, browser, renderer, gameData, error, site>>
       \/ /\ ran.threw
          /\ Catch(r, "customScript", ran.message)
          /\ UNCHANGED <<req, headers, browser, renderer, page, gameData, site>>
       \/ Fails(r, "evaluate")
    /\ UNCHANGED <<scriptVars, deployVars>>

\* await page.waitForTimeout(...); page.on('response', ...); then the extraction
WaitForTimeout(r) ==
    /\ pc[r] = "waitForTimeout"
    /\ \/ /\ Await(r, [call |-> "evaluate", fn |-> "extract"], "evaluate")
          /\ UNCHANGED <<req, headers, browser, renderer, page, gameData, error, site>>
       \/ Fails(r, "waitForTimeout")
    /\ UNCHANGED <<scriptVars, deployVars>>

\* As SnapshotAfter, but the storage scan removes the items it has read.
SnapshotAfterDrained(variant, p) ==
    IF variant = "advanced" /\ p.throws # "localStorage"
    THEN [p EXCEPT !.localStorage = <<>>]
    ELSE p

\* The page after the extraction callback ran in it: the probes only read
\* (getElementById, querySelectorAll, Object.keys, window[key], getItem) and
\* assign to the local object data, so the page is as it was.
SnapshotAfter(variant, p) == p

\* const gameData = await page.evaluate(() => {...}); then page.content()
\* (basic) or browser.close() (advanced).
\* A return value that cannot be copied by value resolves to undefined or
\* rejects the call, depending on the renderer's version.
Evaluate(r) ==
    /\ pc[r] = "evaluate"
    /\ LET extracted == Extract(req[r].variant, page[r]) IN
       \/ /\ ~extracted.threw
          /\ gameData' = [gameData EXCEPT ![r] =
                            IF Transferable(extracted.value) THEN extracted.value
                            ELSE JSUndefined]
          /\ page' = [page EXCEPT ![r] = SnapshotAfter(req[r].variant, @)]
          /\ IF req[r].variant = "basic"
             THEN Await(r, Call("content"), "content")
             ELSE Await(r, Call("close"), "close")
          /\ UNCHANGED <<req, headers, browser, renderer, error, site>>
       \/ /\ extracted.threw
          /\ Catch(r, "extract", extracted.message)
          /\ page' = [page EXCEPT ![r] = SnapshotAfter(req[r].variant, @)]
          /\ UNCHANGED <<req, headers, browser, renderer, gameData, site>>
       \/ /\ ~extracted.threw
          /\ ~Transferable(extracted.value)
          /\ Catch(r, "transfer", "Object reference chain is too long")
          /\ UNCHANGED <<req, headers, browser, renderer, page, gameData, site>>
       \/ Fails(r, "evaluate")
    /\ UNCHANGED <<scriptVars, deployVars>>

\* const html = await page.content(); gameData.htmlLength = html.length; (basic)
\* The assignment throws a TypeError when the evaluation resolved to undefined.
Content(r) ==
    /\ pc[r] = "content"
    /\ \/ /\ gameData[r] # JSUndefined
          /\ gameData' = [gameData EXCEPT ![r] = Put(@, "htmlLength", page[r].htmlLength)]
          /\ Await(r, Call("close"), "close")
          /\ UNCHANGED <<req, headers, browser, renderer, page, error, site>>
       \/ /\ gameData[r] = JSUndefined
          /\ Catch(r, "transfer", "Cannot set properties of undefined (setting 'htmlLength')")
          /\ UNCHANGED <<req, headers, browser, renderer, page, gameData, site>>
       \/ Fails(r, "content")
    /\ UNCHANGED <<scriptVars, deployVars>>

\* await browser.close(); browser = null; return res.status(200).json({...});
Close(r) ==
    /\ pc[r] = "close"
    /\ \/ /\ renderer' = [renderer EXCEPT ![browser[r].process] = "closed"]
          /\ browser' = [browser EXCEPT ![r] = NoBrowser]
          /\ Respond(r, 200, headers[r], SuccessBody(req[r], gameData[r]), log[r])
          /\ UNCHANGED <<req, headers, page, gameData, error, site>>
       \/ Fails(r, "close")
    /\ UNCHANGED <<scriptVars, deployVars>>

\* The close awaited inside the catch block; then the 500 response.  When
\* this close throws, the handler's promise rejects and nothing is sent.
CatchClose(r) ==
    /\ pc[r] = "catchClose"
    /\ \/ /\ renderer' = [renderer EXCEPT ![browser[r].process] = "closed"]
          /\ Respond(r, 500, headers[r], ErrorBody(req[r], error[r]), log[r])
          /\ UNCHANGED <<req, headers, browser, page, gameData, error, site>>
       \/ /\ \E message \in FaultMessages("close") :
                log' = [log EXCEPT ![r] = Append(@, Threw("close", message))]
          /\ pc' = [pc EXCEPT ![r] = "rejected"]
          /\ UNCHANGED <<req, headers, browser, renderer, page, gameData, error, responses, site>>
    /\ UNCHANGED <<scriptVars, deployVars>>

Init ==
    /\ req \in [{1} -> RequestInputs]
    /\ pc = [r \in {1} |-> "start"]
    /\ headers = [r \in {1} |-> {}]
    /\ browser = [r \in {1} |-> NoBrowser]
    /\ renderer = [r \in {1} |-> "none"]
    /\ page = [r \in {1} |-> NoPage]
    /\ gameData = [r \in {1} |-> JSNull]
    /\ error = [r \in {1} |-> NoError]
    /\ log = [r \in {1} |-> <<>>]
    /\ responses = [r \in {1} |-> <<>>]
    /\ site = PageIds
    /\ ScriptIdle
    /\ DeployIdle

\* Two requests to the same handler, in flight at the same time.
ConcurrentInputs ==
    {rqs \in [{1, 2} -> RequestInputs] :
        /\ rqs[1].variant = rqs[2].variant
        /\ rqs[1].method = "GET" /\ rqs[1].queryGameId = "abc123"
        /\ rqs[1].queryWaitTime = Undefined
        /\ rqs[2].method = "POST" /\ rqs[2].queryGameId = Undefined
        /\ rqs[2].bodyGameId = "xyz789"
        /\ rqs[2].customScript \in {Undefined, MarkerScript}
        /\ rqs[2].queryWaitTime = Undefined /\ rqs[2].bodyWaitTime = Undefined}

ConcurrentPageIds ==
    {[base |-> "game", throws |-> NoThrow], [base |-> "bare", throws |-> NoThrow],
     [base |-> "game", throws |-> "getElementById"]}

InitConcurrent ==
    /\ req \in ConcurrentInputs
    /\ pc = [r \in {1, 2} |-> "start"]
    /\ headers = [r \in {1, 2} |-> {}]
    /\ browser = [r \in {1, 2} |-> NoBrowser]
    /\ renderer = [r \in {1, 2} |-> "none"]
    /\ page = [r \in {1, 2} |-> NoPage]
    /\ gameData = [r \in {1, 2} |-> JSNull]
    /\ error = [r \in {1, 2} |-> NoError]
    /\ log = [r \in {1, 2} |-> <<>>]
    /\ responses = [r \in {1, 2} |-> <<>>]
    /\ site = ConcurrentPageIds
    /\ ScriptIdle
    /\ DeployIdle

Next ==
    \E r \in Requests :
        \/ Receive(r)
        \/ Launch(r)
        \/ NewPage(r)
        \/ SetRequestInterception(r)
        \/ SetUserAgent(r)
        \/ Goto(r)
        \/ Inject(r)
        \/ WaitForTimeout(r)
        \/ Evaluate(r)
        \/ Content(r)
        \/ Close(r)
        \/ CatchClose(r)

Spec == Init /\ [][Next]_vars

SpecConcurrent == InitConcurrent /\ [][Next]_vars

(***************************************************************************)
(* The Apps Script client: fetchLichessGameWithExtensions                  *)
(***************************************************************************)
CLOUD_FUNCTION_URL == "https://YOUR-REGION-YOUR-PROJECT.cloudfunctions.net/fetchLichessGame"

\* obj has the property key (obj is an object read from JSON, or null)
Has(obj, key) == obj # JSNull /\ key \in DOMAIN obj

\* The games a page-init payload may describe; properties are optional.
GameSamples ==
    { [id |-> "abc", winner |-> "white"],
      [id |-> "g2", rated |-> TRUE, moves |-> "e4 e5 Nf3",
       clocks |-> <<300, 298, 295, 290, 65>>,
       players |-> [white |-> [name |-> "Alice", rating |-> 1500],
                    black |-> [user |-> [name |-> "Bob", id |-> "bob"], rating |-> 1480]],
       clock |-> [initial |-> 300, increment |-> 3],
       opening |-> [name |-> "King's Pawn", eco |-> "C20", ply |-> 2]],
      [id |-> "g3", moves |-> "", clocks |-> <<300>>],
      [id |-> "g4", moves |-> "d4 d5", players |-> [white |-> [name |-> "Carol"]]] }

\* pageInitData of the envelopes the script may receive
PayloadSamples ==
    {JSNull, [user |-> "anon"]} \cup {[game |-> g] : g \in GameSamples}

\* dom.evaluations as the advanced extraction writes them
EvaluationSamples ==
    << [eval |-> "+0.3", text |-> "0.3"], [eval |-> "-0.1", text |-> "-0.1"],
       [eval |-> "+0.5", text |-> "0.5"], [eval |-> "+0.9", text |-> "0.9"] >>

\* The envelopes the Cloud Function may send: the basic shape (no dom) with
\* no payload and with a game's, the advanced shape with evaluations and
\* every payload, and two envelopes the extractions yield.
ScriptEnvelopes ==
    {[Put(BasicInitialData, "htmlLength", 39) EXCEPT !.pageInitData = payload] :
        payload \in {JSNull} \cup {[game |-> g] : g \in {s \in GameSamples : Has(s, "clock")}}}
    \cup {[AdvancedInitialData EXCEPT !.pageInitData = payload,
                                      !.dom = Put(EmptyObject, "evaluations", EvaluationSamples)] :
            payload \in PayloadSamples}
    \cup {AdvancedExtract(GamePage(ValidInitText)).value,
          Put(BasicExtract(BarePage).value, "htmlLength", BarePage.htmlLength)}

\* An HTTP body: its text and what JSON.parse makes of the text.
Body(text, parsed) == [text |-> text, parsed |-> parsed]

\* JSON.parse(response.getContentText())
ParseBody(body) == body.parsed

\* UrlFetchApp.fetch threw (no response), or returned a response.
FetchThrew(message) == [threw |-> TRUE, message |-> message]
HttpResponse(status, body) == [threw |-> FALSE, status |-> status, body |-> body]

\* What UrlFetchApp.fetch may do for a game id: fail, return a response of
\* the Cloud Function (400, 500, 200), or return what a gateway sends.
HttpOutcomes(gameId) ==
    {FetchThrew("DNS error"),
     HttpResponse(500, Body("{\"success\":false,...}",
                            Ok([success |-> FALSE, error |-> "boom", gameId |-> gameId]))),
     HttpResponse(502, Body("<html>Bad Gateway</html>", Thrown("Unexpected token <"))),
     HttpResponse(200, Body("<html>Sign in</html>", Thrown("Unexpected token <"))),
     HttpResponse(200, Body("null", Ok(JSNull))),
     HttpResponse(200, Body("{\"success\":true}", Ok([success |-> TRUE]))),
     HttpResponse(200, Body("{\"success\":false,...}",
                            Ok([success |-> FALSE, error |-> "boom", gameId |-> gameId])))}
    \cup {HttpResponse(200, Body("{\"success\":true,\"data\":...}",
                                 Ok([success |-> TRUE, gameId |-> gameId, data |-> envelope,
                                     timestamp |-> "ISO-8601"]))) :
            envelope \in ScriptEnvelopes}

\* The result of a function call: the value returned or the error thrown,
\* and the Logger lines written on the way.
Returned(value, lines) == [threw |-> FALSE, value |-> value, lines |-> lines]
Raised(message, lines) == [threw |-> TRUE, message |-> message, lines |-> lines]

\* The try block of fetchLichessGameWithExtensions, given what the fetch did.
FetchTryBlock(gameId, outcome) ==
    LET calling == <<"Calling Cloud Function for game: " \o gameId>> IN
    IF outcome.threw THEN Raised(outcome.message, calling)
    ELSE LET lines == calling \o <<"Status">> IN
    IF outcome.status # 200 THEN Returned(JSNull, lines \o <<"Error: " \o outcome.body.text>>)
    ELSE LET jsonResponse == ParseBody(outcome.body) IN
    IF jsonResponse.threw THEN Raised(jsonResponse.message, lines)
    ELSE IF jsonResponse.value = JSNull
    THEN Raised("Cannot read properties of null (reading 'success')", lines)
    ELSE IF Has(jsonResponse.value, "success") /\ jsonResponse.value.success
    THEN IF ~Has(jsonResponse.value, "data")
         THEN Raised("Cannot read properties of undefined (reading 'htmlLength')",
                     lines \o <<"Game data fetched successfully!">>)
         ELSE Returned(jsonResponse.value.data,
                       lines \o <<"Game data fetched successfully!", "HTML Length">>)
    ELSE Returned(JSNull, lines \o <<"Error: response">>)

\* As CatchFetchError, but the error is thrown on to the caller.
CatchFetchErrorRethrow(result) == result

\* catch (error) { Logger.log(...); return null; }
CatchFetchError(result) ==
    IF result.threw
    THEN Returned(JSNull, result.lines \o <<"Error calling Cloud Function: " \o result.message>>)
    ELSE result

\* fetchLichessGameWithExtensions(gameId), given what the fetch does when it
\* is called; called tells whether UrlFetchApp.fetch was called.
FetchLichessGameWithExtensions(gameId, outcome) ==
    IF ~Truthy(gameId)
    THEN [called |-> FALSE, result |-> Returned(JSNull, <<"Error: No game ID provided">>)]
    ELSE [called |-> TRUE, result |-> CatchFetchError(FetchTryBlock(gameId, outcome))]

(***************************************************************************)
(* The Apps Script client: fetchLichessToolsData and its extractors        *)
(***************************************************************************)
\* The property name: obj.key of an object literal.  A property whose value
\* is undefined is modelled as an absent property.
Prop(name, obj, key) == IF Has(obj, key) THEN name :> obj[key] ELSE <<>>

\* data.pageInitData?.game, null when there is none
GameOf(data) ==
    IF Has(data, "pageInitData") /\ Has(data.pageInitData, "game")
    THEN data.pageInitData.game ELSE JSNull

\* function extractBasicInfo(data)
ExtractBasicInfo(data) ==
    LET game == GameOf(data) IN
    IF game = JSNull THEN JSNull
    ELSE Prop("id", game, "id")
         @@ ("variant" :> IF Has(game, "variant") /\ Has(game.variant, "key")
                          THEN game.variant.key ELSE "standard")
         @@ Prop("speed", game, "speed")
         @@ Prop("rated", game, "rated")
         @@ Prop("initialFen", game, "initialFen")
         @@ (IF Has(game, "status") THEN Prop("status", game.status, "name") ELSE <<>>)
         @@ Prop("winner", game, "winner")
         @@ Prop("startedAt", game, "createdAt")
         @@ Prop("lastMoveAt", game, "lastMoveAt")

\* moveString.split(' '): the tokens between single spaces, cur being the
\* token read so far
RECURSIVE SplitOnSpace(_, _)
SplitOnSpace(s, cur) ==
    IF Len(s) = 0 THEN <<cur>>
    ELSE IF SubSeq(s, 1, 1) = " "
    THEN <<cur>> \o SplitOnSpace(SubSeq(s, 2, Len(s)), "")
    ELSE SplitOnSpace(SubSeq(s, 2, Len(s)), cur \o SubSeq(s, 1, 1))

\* function formatTime(seconds): `${mins}:${secs.toString().padStart(2, '0')}`
FormatTime(seconds) ==
    LET mins == seconds \div 60
        secs == seconds % 60
    IN  ToString(mins) \o ":" \o (IF secs < 10 THEN "0" ELSE "") \o ToString(secs)

\* As AttachByIndex, but an item beyond the last move adds an entry for it.
AttachByIndexGrowing(moves, items, key) ==
    [i \in 1..(IF Len(items) > Len(moves) THEN Len(items) ELSE Len(moves)) |->
        IF i > Len(moves) THEN Put(EmptyObject, key, items[i])
        ELSE IF i <= Len(items) THEN Put(moves[i], key, items[i])
        ELSE moves[i]]

\* items.forEach((item, index) => { if (moves[index]) { moves[index][key] =
\* item } }): item i is attached to entry i when there is an entry i
AttachByIndex(moves, items, key) ==
    [i \in 1..Len(moves) |->
        IF i <= Len(items) THEN Put(moves[i], key, items[i]) ELSE moves[i]]

\* function extractMoves(data)
ExtractMoves(data) ==
    LET game == GameOf(data)
        fromString ==
            IF Has(game, "moves") /\ game.moves # ""
            THEN LET moveArray == SplitOnSpace(game.moves, "") IN
                 [i \in 1..Len(moveArray) |->
                    (("number" :> ((i - 1) \div 2) + 1)
                     @@ ("move" :> moveArray[i]) @@ ("san" :> moveArray[i])
                     @@ ("color" :> IF (i - 1) % 2 = 0 THEN "white" ELSE "black"))]
            ELSE <<>>
        withClocks ==
            IF Has(game, "clocks")
            THEN AttachByIndex(AttachByIndex(fromString, game.clocks, "clockSeconds"),
                               [i \in 1..Len(game.clocks) |-> FormatTime(game.clocks[i])],
                               "clockTime")
            ELSE fromString
    IN  IF Has(data, "dom") /\ Has(data.dom, "evaluations")
        THEN AttachByIndex(withClocks,
                           [i \in 1..Len(data.dom.evaluations) |-> data.dom.evaluations[i].eval],
                           "evaluation")
        ELSE withClocks

\* Object.keys(obj) of an object or of nothing, as a set
KeysOf(obj) == IF obj = JSNull THEN {} ELSE DOMAIN obj

\* try { JSON.parse(text) } catch (e) { text }
ParseOrKeep(text) ==
    LET parsed == JSONParse(text) IN
    IF parsed.threw THEN [t |-> "string", v |-> text] ELSE parsed.value

\* function extractAnalysis(data)
ExtractAnalysis(data) ==
    LET hasAnalysis == Has(data, "pageInitData") /\ Has(data.pageInitData, "analysis")
        storage == IF Has(data, "localStorage") THEN data.localStorage ELSE EmptyObject
        keys == {key \in KeysOf(storage) : Includes(key, "accuracy") \/ Includes(key, "analysis")}
    IN  [available |-> hasAnalysis,
         computerAnalysis |-> IF hasAnalysis THEN data.pageInitData.analysis ELSE JSNull,
         accuracy |-> [key \in keys |-> ParseOrKeep(storage[key])]]

\* One side of extractPlayerInfo: null, or the player's five properties.
PlayerOf(gamePlayers, side) ==
    IF ~Has(gamePlayers, side) THEN JSNull
    ELSE LET player == gamePlayers[side]
             user == IF Has(player, "user") THEN player.user ELSE JSNull
         IN  (IF Has(player, "name") /\ player.name # ""
              THEN "name" :> player.name ELSE Prop("name", user, "name"))
             @@ Prop("rating", player, "rating")
             @@ Prop("ratingDiff", player, "ratingDiff")
             @@ Prop("userId", user, "id")
             @@ Prop("title", user, "title")

\* function extractPlayerInfo(data)
ExtractPlayerInfo(data) ==
    LET game == GameOf(data) IN
    IF Has(game, "players")
    THEN [white |-> PlayerOf(game.players, "white"), black |-> PlayerOf(game.players, "black")]
    ELSE [white |-> JSNull, black |-> JSNull]

\* function extractExtensionSpecificData(data)
ExtractExtensionSpecificData(data) ==
    LET globals == IF Has(data, "extensionData") THEN data.extensionData ELSE JSNull
        tools == {key \in KeysOf(globals) :
                     \/ Includes(ToLowerCase(key), "lichesstools")
                     \/ Includes(ToLowerCase(key), "lichess-tools")}
        storage == IF Has(data, "localStorage") THEN data.localStorage ELSE JSNull
        settings == {key \in KeysOf(storage) :
                        Includes(key, "LichessTools") \/ Includes(key, "lichess-tools")}
        dom == IF Has(data, "dom") THEN data.dom ELSE JSNull
        enhanced == {key \in KeysOf(dom) :
                        \/ Includes(key, "tool") \/ Includes(key, "extension")
                        \/ Includes(key, "enhanced")}
    IN  [found |-> tools # {} \/ settings # {},
         tools |-> [key \in tools |-> globals[key]],
         settings |-> [key \in settings |-> ParseOrKeep(storage[key])],
         enhancements |-> {[type |-> key, data |-> dom[key]] : key \in enhanced}]

\* function extractTiming(data); the clocks of the modelled games are whole
\* minutes and none carries createdAt and lastMoveAt
ExtractTiming(data) ==
    LET game == GameOf(data) IN
    IF Has(game, "clock")
    THEN [timeControl |-> ToString(game.clock.initial \div 60) \o "+"
                              \o ToString(game.clock.increment),
          clockInitial |-> game.clock.initial,
          clockIncrement |-> game.clock.increment,
          totalGameTime |-> JSNull]
    ELSE [timeControl |-> JSNull, clockInitial |-> JSNull, clockIncrement |-> JSNull,
          totalGameTime |-> JSNull]

\* function extractOpening(data)
ExtractOpening(data) ==
    LET game == GameOf(data) IN
    IF Has(game, "opening")
    THEN Prop("name", game.opening, "name") @@ Prop("eco", game.opening, "eco")
         @@ Prop("ply", game.opening, "ply")
    ELSE [name |-> JSNull, eco |-> JSNull, ply |-> JSNull]

\* function fetchLichessToolsData(gameId), given what the fetch returned
FetchLichessToolsData(gameId, raw) ==
    IF raw = JSNull THEN JSNull
    ELSE [gameId |-> gameId,
          basicInfo |-> ExtractBasicInfo(raw),
          moves |-> ExtractMoves(raw),
          analysis |-> ExtractAnalysis(raw),
          playerInfo |-> ExtractPlayerInfo(raw),
          extensionData |-> ExtractExtensionSpecificData(raw),
          timing |-> ExtractTiming(raw),
          opening |-> ExtractOpening(raw)]

(***************************************************************************)
(* The Apps Script client: writing to the sheets, and the batch            *)
(***************************************************************************)
\* What setValue(obj.key) leaves in the cell: the value, or an empty cell
\* when the property is undefined.
Cell(obj, key) == IF Has(obj, key) THEN obj[key] ELSE ""

\* function writeBasicInfoToSheet(sheet, basicInfo, timing, opening): the row
\* it appends, or the TypeError of reading basicInfo.id when basicInfo is null
WriteBasicInfoToSheet(basicInfo, timing, opening) ==
    IF basicInfo = JSNull THEN Thrown("TypeError: Cannot read properties of null (reading 'id')")
    ELSE Ok(<< << Cell(basicInfo, "id"),
                  Cell(basicInfo, "variant"),
                  Cell(basicInfo, "speed"),
                  IF Has(basicInfo, "rated") /\ basicInfo.rated THEN "Rated" ELSE "Casual",
                  Cell(basicInfo, "status"),
                  IF Has(basicInfo, "winner") /\ basicInfo.winner # ""
                  THEN basicInfo.winner ELSE "Draw",
                  Cell(timing, "timeControl"),
                  Cell(opening, "name"),
                  Cell(opening, "eco") >> >>)

\* move.clockTime || '' and move.evaluation || ''
TextOrEmpty(move, key) ==
    IF Has(move, key) /\ move[key] # NullString THEN move[key] ELSE ""

\* function writeMovesToSheet(sheet, moves, gameId): the rows it appends
WriteMovesToSheet(moves, gameId) ==
    [i \in 1..Len(moves) |->
        << gameId, moves[i].number, moves[i].color, moves[i].san,
           TextOrEmpty(moves[i], "clockTime"), TextOrEmpty(moves[i], "evaluation") >>]

PlayerRow(gameId, side, player) ==
    << gameId, side, Cell(player, "name"), Cell(player, "rating"), Cell(player, "ratingDiff") >>

\* function writePlayersToSheet(sheet, players, gameId): white at the first
\* free row and black at the row after it, which leaves the first free row
\* blank when only black is known
WritePlayersToSheet(players, gameId) ==
    (IF players.white # JSNull THEN <<PlayerRow(gameId, "White", players.white)>>
     ELSE IF players.black # JSNull THEN << <<>> >> ELSE <<>>)
    \o (IF players.black # JSNull THEN <<PlayerRow(gameId, "Black", players.black)>> ELSE <<>>)

\* The faults SpreadsheetApp may raise on a call.
SheetFaults == {"Exception: Service Spreadsheets failed"}

\* const gameIds = [...] of analyzeMultipleGames
BatchGameIds == <<"Bm5DQUPZ", "GAME_ID_2", "GAME_ID_3">>

InBatch == entryFn = "analyzeMultipleGames"
CurrentGameId == gameIds[index]

\* The forEach callback has ended for the current game: the next game is
\* started or, after the last one, the completion line is logged.
NextGame(lines) ==
    /\ index' = index + 1
    /\ UNCHANGED uncaught
    /\ IF index < Len(gameIds)
       THEN logger' = logger \o lines /\ spc' = "start"
       ELSE logger' = logger \o lines \o <<"Batch processing complete!">> /\ spc' = "complete"

\* writeOrganizedDataToSheet returns: to Utilities.sleep in the batch, to
\* the caller otherwise.
ReturnFromWrite(lines) ==
    /\ logger' = logger \o lines
    /\ spc' = IF InBatch THEN "sleep" ELSE "returned"
    /\ UNCHANGED <<index, uncaught>>

\* As ThrowFromWrite, but the batch has no catch: the error ends the run.
ThrowFromWriteUncaught(lines, message) ==
    /\ logger' = logger \o lines
    /\ spc' = "threw"
    /\ uncaught' = message
    /\ UNCHANGED index

\* An error leaves writeOrganizedDataToSheet: the batch catches and logs it
\* and goes on; a direct call ends with the error.
ThrowFromWrite(lines, message) ==
    IF InBatch
    THEN NextGame(lines \o <<"Error processing " \o CurrentGameId \o ": " \o message>>)
    ELSE /\ logger' = logger \o lines
         /\ spc' = "threw"
         /\ uncaught' = message
         /\ UNCHANGED index

\* One call of fetchLichessGameWithExtensions, as the caller sees it.
FetchCall(gameId, call, outcome) ==
    [gameId |-> gameId,
     called |-> call.called,
     url |-> IF call.called THEN CLOUD_FUNCTION_URL \o "?gameId=" \o gameId ELSE "",
     outcome |-> IF call.called THEN outcome ELSE JSNull,
     threw |-> call.result.threw,
     value |-> IF call.result.threw THEN JSNull ELSE call.result.value]

\* fetchLichessToolsData(gameId) up to the fetch: the batch logs the game,
\* an empty game id returns null at once, any other id is fetched.
StartGame ==
    /\ spc = "start"
    /\ LET gameId == CurrentGameId
           processing == IF InBatch
                         THEN <<"Processing game " \o ToString(index) \o "/"
                                \o ToString(Len(gameIds)) \o ": " \o gameId>>
                         ELSE <<>>
           call == FetchLichessGameWithExtensions(gameId, JSNull)
       IN IF Truthy(gameId)
          THEN /\ spc' = "fetch"
               /\ logger' = logger \o processing
               /\ UNCHANGED <<index, rawData, organized, fetches, uncaught>>
          ELSE /\ fetches' = Append(fetches, FetchCall(gameId, call, JSNull))
               /\ rawData' = call.result.value
               /\ organized' = FetchLichessToolsData(gameId, call.result.value)
               /\ ReturnFromWrite(processing \o call.result.lines
                                  \o <<"Failed to fetch game data">>)
    /\ UNCHANGED <<entryFn, gameIds, sheets>>
    /\ UNCHANGED <<handlerVars, deployVars>>

\* UrlFetchApp.fetch answers or throws; fetchLichessGameWithExtensions
\* returns, fetchLichessToolsData organises what it returned, and
\* writeOrganizedDataToSheet returns when there is nothing to write.
FetchReturns ==
    /\ spc = "fetch"
    /\ \E outcome \in HttpOutcomes(CurrentGameId) :
        LET gameId == CurrentGameId
            call == FetchLichessGameWithExtensions(gameId, outcome)
        IN /\ fetches' = Append(fetches, FetchCall(gameId, call, outcome))
           /\ IF call.result.threw
              THEN /\ ThrowFromWrite(call.result.lines, call.result.message)
                   /\ UNCHANGED <<rawData, organized>>
              ELSE /\ rawData' = call.result.value
                   /\ organized' = FetchLichessToolsData(gameId, call.result.value)
                   /\ IF call.result.value = JSNull
                      THEN ReturnFromWrite(call.result.lines \o <<"Failed to fetch game data">>)
                      ELSE /\ logger' = logger \o call.result.lines
                           /\ spc' = "writeBasic"
                           /\ UNCHANGED <<index, uncaught>>
    /\ UNCHANGED <<entryFn, gameIds, sheets>>
    /\ UNCHANGED <<handlerVars, deployVars>>

\* getActiveSpreadsheet, the three sheets, and writeBasicInfoToSheet
WriteBasic ==
    /\ spc = "writeBasic"
    /\ \/ \E fault \in SheetFaults :
            /\ ThrowFromWrite(<<>>, fault)
            /\ UNCHANGED sheets
       \/ LET rows == WriteBasicInfoToSheet(organized.basicInfo, organized.timing,
                                            organized.opening)
          IN IF rows.threw
             THEN /\ ThrowFromWrite(<<>>, rows.message)
                  /\ UNCHANGED sheets
             ELSE /\ sheets' = [sheets EXCEPT !["Basic Info"] = @ \o rows.value]
                  /\ spc' = "writeMoves"
                  /\ UNCHANGED <<index, logger, uncaught>>
    /\ UNCHANGED <<entryFn, gameIds, rawData, organized, fetches>>
    /\ UNCHANGED <<handlerVars, deployVars>>

\* writeMovesToSheet(movesSheet, data.moves, gameId)
WriteMoves ==
    /\ spc = "writeMoves"
    /\ \/ /\ organized.moves # <<>>
          /\ \E fault \in SheetFaults : ThrowFromWrite(<<>>, fault)
          /\ UNCHANGED sheets
       \/ /\ sheets' = [sheets EXCEPT !["Moves"] =
                            @ \o WriteMovesToSheet(organized.moves, organized.gameId)]
          /\ spc' = "writePlayers"
          /\ UNCHANGED <<index, logger, uncaught>>
    /\ UNCHANGED <<entryFn, gameIds, rawData, organized, fetches>>
    /\ UNCHANGED <<handlerVars, deployVars>>

\* writePlayersToSheet(playersSheet, data.playerInfo, gameId) and the
\* success line
WritePlayers ==
    /\ spc = "writePlayers"
    /\ \/ /\ \E fault \in SheetFaults : ThrowFromWrite(<<>>, fault)
          /\ UNCHANGED sheets
       \/ /\ sheets' = [sheets EXCEPT !["Players"] =
                            @ \o WritePlayersToSheet(organized.playerInfo, organized.gameId)]
          /\ ReturnFromWrite(<<"Data written to sheets successfully!">>)
    /\ UNCHANGED <<entryFn, gameIds, rawData, organized, fetches>>
    /\ UNCHANGED <<handlerVars, deployVars>>

\* Utilities.sleep(2000), then the next game
Sleep ==
    /\ spc = "sleep"
    /\ NextGame(<<>>)
    /\ UNCHANGED <<entryFn, gameIds, rawData, organized, sheets, fetches>>
    /\ UNCHANGED <<handlerVars, deployVars>>

\* The editor runs analyzeMultipleGames, or writeOrganizedDataToSheet with
\* a game id or with none.
InitScript ==
    /\ HandlerIdle
    /\ DeployIdle
    /\ \E run \in {<<"analyzeMultipleGames", BatchGameIds>>,
                   <<"writeOrganizedDataToSheet", <<"Bm5DQUPZ">> >>,
                   <<"writeOrganizedDataToSheet", <<"">> >>} :
        /\ entryFn = run[1]
        /\ gameIds = run[2]
    /\ index = 1
    /\ spc = "start"
    /\ rawData = JSNull
    /\ organized = JSNull
    /\ sheets = [name \in {"Basic Info", "Moves", "Players"} |-> <<>>]
    /\ logger = <<>>
    /\ fetches = <<>>
    /\ uncaught = ""

NextScript ==
    \/ StartGame
    \/ FetchReturns
    \/ WriteBasic
    \/ WriteMoves
    \/ WritePlayers
    \/ Sleep

SpecScript == InitScript /\ [][NextScript]_vars

\* The Apps Script runtime runs a started script to its end: a step that
\* can be taken is taken.
SpecScriptLive == SpecScript /\ WF_vars(NextScript)

(***************************************************************************)
(* deploy.sh                                                               *)
(***************************************************************************)
\* exit n, and the exit set -e takes when a command fails
Exit(status) ==
    /\ shpc' = "exited"
    /\ exitStatus' = status

\* One external command as the script ran it, with its exit status.
Command(words, status) == [words |-> words, status |-> status]

\* read -p "..." VAR
Read(name, value) == env' = Put(env, name, value)

\* if ! command -v gcloud &> /dev/null; then ... exit 1
CheckGcloud ==
    /\ shpc = "start"
    /\ IF "gcloud" \in DOMAIN files
       THEN shpc' = "readProject" /\ UNCHANGED exitStatus
       ELSE Exit(1)
    /\ UNCHANGED <<env, files, commands>>
    /\ UNCHANGED <<handlerVars, scriptVars>>

\* read -p "Project ID: " PROJECT_ID, and the emptiness test
ReadProject ==
    /\ shpc = "readProject"
    /\ \E answer \in {"", "my-project"} :
        /\ Read("PROJECT_ID", answer)
        /\ IF answer = ""
           THEN Exit(1)
           ELSE shpc' = "setProject" /\ UNCHANGED exitStatus
    /\ UNCHANGED <<files, commands>>
    /\ UNCHANGED <<handlerVars, scriptVars>>

\* gcloud config set project $PROJECT_ID; under set -e its failure ends
\* the script
SetProject ==
    /\ shpc = "setProject"
    /\ \E status \in {0, 1} :
        /\ commands' = Append(commands,
               Command(<<"gcloud", "config", "set", "project", env.PROJECT_ID>>, status))
        /\ IF status = 0
           THEN shpc' = "readRegion" /\ UNCHANGED exitStatus
           ELSE Exit(status)
    /\ UNCHANGED <<env, files>>
    /\ UNCHANGED <<handlerVars, scriptVars>>

\* case $REGION_CHOICE in ... esac
RegionOf(choice) ==
    CASE choice = "1" -> "us-central1"
      [] choice = "2" -> "us-east1"
      [] choice = "3" -> "us-west1"
      [] choice = "4" -> "europe-west1"
      [] choice = "5" -> "asia-east1"
      [] OTHER -> "us-central1"

\* read -p "Enter choice [1-5]: " REGION_CHOICE
ReadRegion ==
    /\ shpc = "readRegion"
    /\ \E choice \in {"", "1", "4", "9"} :
        env' = Put(Put(env, "REGION_CHOICE", choice), "REGION", RegionOf(choice))
    /\ shpc' = "readVersion"
    /\ UNCHANGED <<files, commands, exitStatus>>
    /\ UNCHANGED <<handlerVars, scriptVars>>

\* mv source target: fails when the source is missing, else the target
\* takes the source's content and the source is gone
Mv(source, target) ==
    IF source \in DOMAIN files
    THEN [name \in (DOMAIN files \ {source}) \cup {target} |->
            IF name = target THEN files[source] ELSE files[name]]
    ELSE files

\* read -p "Enter choice [1-2]: " VERSION_CHOICE and the if that follows:
\* version 2 moves index-advanced.js over index.js at once
ReadVersion ==
    /\ shpc = "readVersion"
    /\ \E choice \in {"", "1", "2"} :
        IF choice = "2"
        THEN LET status == IF "index-advanced.js" \in DOMAIN files THEN 0 ELSE 1 IN
             /\ env' = Put(Put(Put(env, "VERSION_CHOICE", choice),
                               "ENTRY_POINT", "fetchLichessGameAdvanced"),
                           "SOURCE_FILE", "index-advanced.js")
             /\ commands' = Append(commands,
                    Command(<<"mv", "index-advanced.js", "index.js">>, status))
             /\ files' = Mv("index-advanced.js", "index.js")
             /\ IF status = 0
                THEN shpc' = "readMemory" /\ UNCHANGED exitStatus
                ELSE Exit(status)
        ELSE /\ env' = Put(Put(Put(env, "VERSION_CHOICE", choice),
                               "ENTRY_POINT", "fetchLichessGame"),
                           "SOURCE_FILE", "index.js")
             /\ shpc' = "readMemory"
             /\ UNCHANGED <<files, commands, exitStatus>>
    /\ UNCHANGED <<handlerVars, scriptVars>>

\* case $MEMORY_CHOICE in ... esac
MemoryOf(choice) ==
    CASE choice = "1" -> "512MB"
      [] choice = "2" -> "1GB"
      [] choice = "3" -> "2GB"
      [] OTHER -> "1GB"

\* read -p "Enter choice [1-3]: " MEMORY_CHOICE
ReadMemory ==
    /\ shpc = "readMemory"
    /\ \E choice \in {"", "1", "3"} :
        env' = Put(Put(env, "MEMORY_CHOICE", choice), "MEMORY", MemoryOf(choice))
    /\ shpc' = "confirm"
    /\ UNCHANGED <<files, commands, exitStatus>>
    /\ UNCHANGED <<handlerVars, scriptVars>>

\* [ "$CONFIRM" != "y" ] is false
Confirmed(answer) == answer = "y"

\* read -p "Deploy with these settings? (y/n): " CONFIRM, and the exit 0
\* on any other answer
Confirm ==
    /\ shpc = "confirm"
    /\ \E answer \in {"", "y", "n", "Y", "yes"} :
        /\ Read("CONFIRM", answer)
        /\ IF Confirmed(answer)
           THEN shpc' = "deploy" /\ UNCHANGED exitStatus
           ELSE Exit(0)
    /\ UNCHANGED <<files, commands>>
    /\ UNCHANGED <<handlerVars, scriptVars>>

\* gcloud functions deploy fetchLichessGame ...: it uploads the directory;
\* under set -e its failure ends the script before the test of $?
Deploy ==
    /\ shpc = "deploy"
    /\ \E status \in {0, 1} :
        /\ commands' = Append(commands,
               Command(<<"gcloud", "functions", "deploy", "fetchLichessGame", "--gen2",
                         "--region", env.REGION, "--memory", env.MEMORY,
                         "--timeout", "120s", "--entry-point", env.ENTRY_POINT>>, status))
        /\ IF status = 0
           THEN shpc' = "describe" /\ UNCHANGED exitStatus
           ELSE Exit(status)
    /\ UNCHANGED <<env, files>>
    /\ UNCHANGED <<handlerVars, scriptVars>>

\* FUNCTION_URL=$(gcloud functions describe ...), the echoes, and the end
\* of the script
Describe ==
    /\ shpc = "describe"
    /\ \E status \in {0, 1} :
        /\ commands' = Append(commands,
               Command(<<"gcloud", "functions", "describe", "fetchLichessGame",
                         "--region", env.REGION, "--gen2">>, status))
        /\ env' = IF status = 0
                  THEN Put(env, "FUNCTION_URL",
                           "https://" \o env.REGION \o "-" \o env.PROJECT_ID
                           \o ".cloudfunctions.net/fetchLichessGame")
                  ELSE Put(env, "FUNCTION_URL", "")
        /\ Exit(status)
    /\ UNCHANGED files
    /\ UNCHANGED <<handlerVars, scriptVars>>

\* The directory deploy.sh is run in: a fresh checkout, or one in which an
\* earlier run chose version 2; gcloud on the PATH or not.
InitDeploy ==
    /\ HandlerIdle
    /\ ScriptIdle
    /\ shpc = "start"
    /\ env = <<>>
    /\ \E sources \in {[name \in {"index.js", "index-advanced.js"} |->
                           IF name = "index.js" THEN "basic" ELSE "advanced"],
                       [name \in {"index.js"} |-> "advanced"]} :
       \E path \in {<<>>, [name \in {"gcloud"} |-> "binary"]} :
          files = sources @@ path
    /\ commands = <<>>
    /\ exitStatus = -1

NextDeploy ==
    \/ CheckGcloud
    \/ ReadProject
    \/ SetProject
    \/ ReadRegion
    \/ ReadVersion
    \/ ReadMemory
    \/ Confirm
    \/ Deploy
    \/ Describe

SpecDeploy == InitDeploy /\ [][NextDeploy]_vars

(***************************************************************************)
(* Properties                                                              *)
(***************************************************************************)
CallsOf(r, name) == SelectSeq(log[r], LAMBDA e : e.call = name)
CallCount(r, name) == Len(CallsOf(r, name))
Throws(r) == CallsOf(r, "throw")
Finished(r) == pc[r] \in {"done", "rejected"}
InjectCall == [call |-> "evaluate", fn |-> "customScript"]
ExtractCall == [call |-> "evaluate", fn |-> "extract"]
Occurs(r, entry) == \E i \in 1..Len(log[r]) : log[r][i] = entry
Occurrences(r, entry) == Cardinality({i \in 1..Len(log[r]) : log[r][i] = entry})
Answered(r, status) == Len(responses[r]) = 1 /\ responses[r][1].status = status
Absent(v) == v = Undefined \/ v = ""

\* C1: a request other than OPTIONS whose gameId is missing or empty in both
\* the query and the body is answered with HTTP 400 as soon as it is handled,
\* and nothing was asked of the renderer: no launch, no navigation, no page.
MissingGameIdIsRejected ==
    \A r \in Requests :
        (/\ req[r].method # "OPTIONS"
         /\ Absent(req[r].queryGameId) /\ Absent(req[r].bodyGameId)
         /\ pc[r] # "start")
        => /\ pc[r] = "done"
           /\ Answered(r, 400)
           /\ log[r] = <<Sent(400)>>
           /\ renderer[r] = "none"
           /\ browser[r] = NoBrowser
           /\ page[r] = NoPage

\* Witness of C1: a POST whose gameId is the empty string in the query and in
\* the body has been answered with 400.
MissingGameIdWitness ==
    \E r \in Requests :
        /\ req[r].method = "POST"
        /\ req[r].queryGameId = "" /\ req[r].bodyGameId = ""
        /\ Answered(r, 400)

\* C2 (as claimed): when a request that acquired a renderer has ended, on any
\* exit path, browser.close() was called exactly once for it.
CloseCalledExactlyOnce ==
    \A r \in Requests :
        (Finished(r) /\ renderer[r] # "none") => CallCount(r, "close") = 1

(***************************************************************************)
(* Fragments of an envelope, for the probe properties                      *)
(***************************************************************************)
BasicFragments ==
    {<<"pageInitData">>, <<"extensionData">>,
     <<"additionalData", "title">>, <<"additionalData", "url">>,
     <<"additionalData", "moves">>, <<"additionalData", "analysis">>,
     <<"additionalData", "extensionElements">>}

AdvancedFragments ==
    {<<"pageInitData">>, <<"extensionData">>, <<"localStorage">>,
     <<"dom", "title">>, <<"dom", "url">>, <<"dom", "moves">>,
     <<"dom", "players">>, <<"dom", "evaluations">>,
     <<"computedData", "moveCount">>, <<"computedData", "jsonScripts">>}
    \cup {<<"dom", SelectorKey(extensionSelectors[i])>> : i \in 1..Len(extensionSelectors)}

Fragments(variant) == IF variant = "basic" THEN BasicFragments ELSE AdvancedFragments

\* The fragments filled by the probe that issues the query named by throws.
OwnFragments(variant, throws) ==
    CASE throws = "getElementById" -> {<<"pageInitData">>}
      [] throws \in {"Object.keys(window)", "window.lichessTools"} -> {<<"extensionData">>}
      [] throws = "localStorage" /\ variant = "advanced" -> {<<"localStorage">>}
      [] throws = ".moves move" /\ variant = "basic" -> {<<"additionalData", "moves">>}
      [] throws = "[data-analysis]" /\ variant = "basic" -> {<<"additionalData", "analysis">>}
      [] throws = "[data-lichess-tools], [data-extension], [class*=\"extension\"]"
           /\ variant = "basic" -> {<<"additionalData", "extensionElements">>}
      [] throws = ".moves move, move" /\ variant = "advanced" -> {<<"dom", "moves">>}
      [] throws = ".ruser, .player" /\ variant = "advanced" -> {<<"dom", "players">>}
      [] throws = "[data-eval], .eval, .evaluation" /\ variant = "advanced" ->
            {<<"dom", "evaluations">>}
      [] throws = "[data-lichess-tools]" /\ variant = "advanced" ->
            {<<"dom", "data-lichess-tools">>}
      [] throws = ".rmoves move" /\ variant = "advanced" -> {<<"computedData", "moveCount">>}
      [] throws = "script:not([src])" /\ variant = "advanced" ->
            {<<"computedData", "jsonScripts">>}
      [] OTHER -> {}

\* The fragment of an envelope at a path, or its absence.
FragmentAt(data, path) ==
    IF Len(path) = 1 THEN [present |-> TRUE, value |-> data[path[1]]]
    ELSE IF path[2] \in DOMAIN data[path[1]]
         THEN [present |-> TRUE, value |-> data[path[1]][path[2]]]
         ELSE [present |-> FALSE]

\* The extraction of r has run in the page to its end or to a throw of its
\* own (the renderer did not fail the evaluate call itself).
ExtractionRan(r) ==
    \E i \in 1..Len(log[r]) :
        /\ log[r][i] = ExtractCall
        /\ i < Len(log[r])
        /\ ~(log[r][i + 1].call = "throw" /\ log[r][i + 1].source = "evaluate")

\* C3 (as claimed): when the underlying query of one probe throws inside the
\* page evaluation, the evaluation still returns an envelope, and every
\* fragment of it that belongs to another probe equals the fragment the same
\* page yields when that query does not throw.
ProbeFaultsAreIsolated ==
    \A r \in Requests :
        (/\ page[r] # NoPage
         /\ ExtractionRan(r)
         /\ page[r].throws # NoThrow)
        => /\ gameData[r] # JSNull
           /\ \A f \in Fragments(req[r].variant)
                         \ OwnFragments(req[r].variant, page[r].throws) :
                 FragmentAt(gameData[r], f)
                     = FragmentAt(Extract(req[r].variant, Healthy(page[r])).value, f)

\* C4 (as claimed): a request that ended with no fault other than faults
\* inside the probes (launch, navigation, injection and close all succeeded)
\* was answered with HTTP 200, success = true and the envelope.
ProbeFaultsNeverSurface ==
    \A r \in Requests :
        (/\ pc[r] = "done"
         /\ Occurs(r, ExtractCall)
         /\ \A i \in 1..Len(Throws(r)) : Throws(r)[i].source = "extract")
        => /\ Answered(r, 200)
           /\ responses[r][1].body.success = TRUE
           /\ responses[r][1].body.data = gameData[r]
           /\ gameData[r] # JSNull

\* C5 (as claimed): when browser.close() has thrown, the client still gets the
\* response computed before it: the 200 success envelope when close was the
\* first fault (the extraction had succeeded), the 500 envelope with the
\* first fault's message otherwise.
CloseFaultKeepsResponse ==
    \A r \in Requests :
        (/\ Finished(r)
         /\ \E i \in 1..Len(Throws(r)) : Throws(r)[i].source = "close")
        => IF Throws(r)[1].source = "close"
           THEN /\ Answered(r, 200)
                /\ responses[r][1].body.success = TRUE
                /\ responses[r][1].body.data = gameData[r]
           ELSE /\ Answered(r, 500)
                /\ responses[r][1].body.success = FALSE
                /\ responses[r][1].body.error = Throws(r)[1].message

\* C6: every response whose body has a success field is either a 200 with
\* success = true, a data field and no error field, or a 500 with
\* success = false, a non-empty error message and no data field; and every
\* 200 or 500 response has that field.
EnvelopeIsWellFormed ==
    \A r \in Requests : \A i \in 1..Len(responses[r]) :
        LET status == responses[r][i].status
            body == responses[r][i].body
        IN  /\ status \in {200, 500} => "success" \in DOMAIN body
            /\ "success" \in DOMAIN body =>
                 /\ body.success = TRUE =>
                      /\ status = 200
                      /\ "data" \in DOMAIN body
                      /\ body.data # JSNull
                      /\ "error" \notin DOMAIN body
                 /\ body.success = FALSE =>
                      /\ status = 500
                      /\ "error" \in DOMAIN body
                      /\ body.error # ""
                      /\ body.error = error[r]
                      /\ "data" \notin DOMAIN body

\* Witness of C6: an error envelope was sent after a renderer had been
\* acquired and a later call threw.
ErrorEnvelopeWitness ==
    \E r \in Requests :
        /\ Answered(r, 500)
        /\ responses[r][1].body.success = FALSE
        /\ renderer[r] = "closed"
        /\ Len(Throws(r)) = 1

\* C7 (as claimed): a request whose handler has ended has received exactly one
\* response, with status 204, 400, 200 or 500; and no request ever has two.
ExactlyOneResponse ==
    \A r \in Requests :
        /\ Len(responses[r]) <= 1
        /\ Finished(r) =>
             /\ Len(responses[r]) = 1
             /\ responses[r][1].status \in {204, 400, 200, 500}

\* The step of the request lifecycle a logged call belongs to: 1 acquire,
\* 2 prepare the page, 3 navigate, 4 inject, 5 settle delay, 6 extraction,
\* 7 read the HTML, 8 teardown, 9 respond.
StepOf(entry) ==
    CASE entry.call = "launch" -> 1
      [] entry.call \in {"newPage", "setRequestInterception", "setUserAgent"} -> 2
      [] entry.call = "goto" -> 3
      [] entry = InjectCall -> 4
      [] entry.call = "waitForTimeout" -> 5
      [] entry = ExtractCall -> 6
      [] entry.call = "content" -> 7
      [] entry.call = "close" -> 8
      [] entry.call = "res.send" -> 9

\* The calls of r in order, without the records of throws.
Steps(r) == SelectSeq(log[r], LAMBDA e : e.call # "throw")

\* C8: the calls of a request follow the order validate, acquire, navigate,
\* inject, settle delay, extraction, teardown, respond (a renderer call is
\* made only for a validated request, and no call of an earlier step follows
\* a call of a later one); a request answered with 200 made each step, with
\* one launch, one navigation, one settle delay, one extraction and one
\* close, and no call threw; and when a 200 or a 500 is sent for a request
\* that acquired a renderer, the renderer has been closed by a close call
\* that precedes the response.
StepsAreSequential ==
    \A r \in Requests :
        /\ \A i, j \in 1..Len(Steps(r)) :
              i < j => StepOf(Steps(r)[i]) <= StepOf(Steps(r)[j])
        /\ CallCount(r, "launch") <= 1
        /\ Occurrences(r, ExtractCall) <= 1
        /\ CallCount(r, "launch") > 0 =>
              req[r].method # "OPTIONS" /\ ~Absent(GameIdOf(req[r]))
        /\ (Len(responses[r]) > 0 /\ responses[r][1].status = 200) =>
              /\ CallCount(r, "launch") = 1
              /\ CallCount(r, "goto") = 1
              /\ CallCount(r, "waitForTimeout") = 1
              /\ Occurrences(r, ExtractCall) = 1
              /\ CallCount(r, "close") = 1
              /\ CallCount(r, "res.send") = 1
              /\ Throws(r) = <<>>
              /\ gameData[r] # JSNull
        /\ (Len(responses[r]) > 0 /\ responses[r][1].status \in {200, 500}
                /\ CallCount(r, "launch") > 0 /\ renderer[r] # "none") =>
              /\ renderer[r] = "closed"
              /\ \E i \in 1..Len(log[r]) : \E j \in 1..Len(log[r]) :
                    i < j /\ log[r][i].call = "close" /\ log[r][j].call = "res.send"

\* Witness of C8: an advanced request with an injected script was answered
\* with 200 after the whole sequence of steps.
SequentialWitness ==
    \E r \in Requests :
        /\ Answered(r, 200)
        /\ req[r].variant = "advanced"
        /\ Occurs(r, InjectCall)
        /\ renderer[r] = "closed"

\* Position of the first occurrence of a call of the given name, 0 if none.
FirstIndex(r, Test(_)) ==
    IF \E i \in 1..Len(log[r]) : Test(log[r][i])
    THEN CHOOSE i \in 1..Len(log[r]) :
            Test(log[r][i]) /\ \A j \in 1..(i - 1) : ~Test(log[r][j])
    ELSE 0

\* The script is evaluated right after the navigation has returned, and
\* before any settle delay or extraction.
InjectedInPlace(r) ==
    LET inject == FirstIndex(r, LAMBDA e : e = InjectCall) IN
    /\ Occurrences(r, InjectCall) = 1
    /\ inject > 1
    /\ log[r][inject - 1].call = "goto"
    /\ page[r] # NoPage
    /\ \A i \in 1..Len(log[r]) :
          (log[r][i].call = "waitForTimeout" \/ log[r][i] = ExtractCall) => inject < i

\* Navigation has returned and the handler went on to a later call.
PastNavigation(r) ==
    \E i \in 1..Len(log[r]) :
        /\ log[r][i].call = "goto"
        /\ i < Len(log[r])
        /\ log[r][i + 1].call # "throw"

\* C9 (as claimed): in the advanced variant, once navigation has completed a
\* supplied customScript (any value other than undefined) has been evaluated,
\* after the navigation and before the settle delay and the extraction; and
\* when none is supplied no injection is ever evaluated.
SuppliedScriptIsInjected ==
    \A r \in Requests :
        req[r].variant = "advanced" =>
            IF req[r].customScript # Undefined
            THEN PastNavigation(r) => InjectedInPlace(r)
            ELSE ~Occurs(r, InjectCall) /\ CallCount(r, "evaluate") <= 1

\* C9 (amended): in the advanced variant, once navigation has completed a
\* supplied and non-empty customScript has been evaluated, after the
\* navigation and before the settle delay and the extraction; when
\* customScript is not supplied or is the empty string no injection is ever
\* evaluated and the only page evaluation is the extraction.
NonEmptyScriptIsInjected ==
    \A r \in Requests :
        req[r].variant = "advanced" =>
            IF ~Absent(req[r].customScript)
            THEN PastNavigation(r) => InjectedInPlace(r)
            ELSE /\ ~Occurs(r, InjectCall)
                 /\ CallCount(r, "evaluate") <= 1
                 /\ CallCount(r, "evaluate") = Occurrences(r, ExtractCall)

\* Witness of C9: a script was injected and the handler reached the
\* extraction, in a page that carries the script's global.
InjectionWitness ==
    \E r \in Requests :
        /\ req[r].variant = "advanced"
        /\ req[r].customScript = MarkerScript
        /\ Occurs(r, InjectCall)
        /\ Occurs(r, ExtractCall)
        /\ \E i \in 1..Len(page[r].window) : page[r].window[i].key = "__marker"

\* C10 (as claimed): in the advanced variant, a request whose customScript
\* threw or failed to parse when evaluated has, once ended, been answered
\* with HTTP 500 and success = false carrying that fault's message, without a
\* settle delay or an extraction, and its renderer has been closed.
ScriptFaultIsAnswered ==
    \A r \in Requests :
        (/\ Finished(r)
         /\ req[r].variant = "advanced"
         /\ \E i \in 1..Len(Throws(r)) : Throws(r)[i].source = "customScript")
        => /\ Answered(r, 500)
           /\ responses[r][1].body.success = FALSE
           /\ responses[r][1].body.error = Throws(r)[1].message
           /\ CallCount(r, "waitForTimeout") = 0
           /\ ~Occurs(r, ExtractCall)
           /\ renderer[r] = "closed"

\* C11 (as claimed): a request whose page.goto rejected has, once ended, been
\* answered with HTTP 500 and success = false carrying the navigation fault's
\* message; nothing was extracted, goto was called once, and the renderer has
\* been closed.
NavigationFaultIsAnswered ==
    \A r \in Requests :
        (/\ Finished(r)
         /\ \E i \in 1..Len(Throws(r)) : Throws(r)[i].source = "goto")
        => /\ Answered(r, 500)
           /\ responses[r][1].body.success = FALSE
           /\ responses[r][1].body.error = Throws(r)[1].message
           /\ ~Occurs(r, ExtractCall)
           /\ CallCount(r, "goto") = 1
           /\ renderer[r] = "closed"

\* C12 (as claimed): in both variants the body of every HTTP 400 response has
\* the field error, equal to "Missing gameId parameter", and a field usage.
MissingGameIdBodyHasUsage ==
    \A r \in Requests :
        \A i \in 1..Len(responses[r]) :
            responses[r][i].status = 400
            => /\ "error" \in DOMAIN responses[r][i].body
               /\ responses[r][i].body.error = "Missing gameId parameter"
               /\ "usage" \in DOMAIN responses[r][i].body

\* The fixed top-level keys of a variant's envelope.
EnvelopeKeys(variant) ==
    IF variant = "basic"
    THEN {"pageInitData", "extensionData", "additionalData", "htmlLength"}
    ELSE {"pageInitData", "extensionData", "dom", "localStorage", "cookies", "computedData"}

\* A value a probe leaves when it found nothing.
NullOrEmpty(v) == v = JSNull \/ v = EmptyObject

\* C13: the data of every HTTP 200 response has all the fixed top-level keys
\* of its variant, whatever the probes found; on a page where the probes find
\* nothing the keys are still there, with null or empty values.
EnvelopeKeysArePresent ==
    \A r \in Requests :
        \A i \in 1..Len(responses[r]) :
            responses[r][i].status = 200
            => LET data == responses[r][i].body.data IN
               /\ data \notin {JSNull, JSUndefined}
               /\ EnvelopeKeys(req[r].variant) \subseteq DOMAIN data
               /\ (/\ page[r].dom = <<>>
                   /\ \A k \in 1..Len(page[r].window) : page[r].window[k].key = "jQuery")
                  => /\ NullOrEmpty(data.pageInitData)
                     /\ NullOrEmpty(data.extensionData)

\* Witness of C13: a 200 response for a page in which the page-init and the
\* global probes found nothing; both keys are present, holding null.
EmptyProbesWitness ==
    \E r \in Requests :
        /\ Answered(r, 200)
        /\ req[r].variant = "basic"
        /\ page[r].dom = <<>>
        /\ responses[r][1].body.data.pageInitData = JSNull
        /\ responses[r][1].body.data.extensionData = JSNull
        /\ "moves" \notin DOMAIN responses[r][1].body.data.additionalData

\* The trimmed text of the page's page-init-data element; Undefined when the
\* page has no such element.
PayloadText(p) ==
    LET found == SelectSeq(p.dom, LAMBDA el : ElementId(el) = "page-init-data") IN
    IF found = <<>> THEN Undefined ELSE Trim(found[1].textContent)

\* The same page with a page-init-data element holding a valid payload.
WithValidPayload(p) ==
    [p EXCEPT !.dom = InitElement(ValidInitText)
                      \o SelectSeq(p.dom, LAMBDA el : ElementId(el) # "page-init-data")]

\* The evaluation of r returned an envelope to the handler.
HasEnvelope(r) ==
    /\ page[r] # NoPage
    /\ ExtractionRan(r)
    /\ gameData[r] \notin {JSNull, JSUndefined}

\* The payload scenario A of the specification names, parsed.
ParsedValidPayload == [game |-> [id |-> "abc", winner |-> "white"]]

\* C14 (as claimed): when the page-init-data element is absent or its trimmed
\* text is not valid JSON, pageInitData is null and every other fragment equals
\* the fragment of the same page with a valid payload; when the element holds
\* valid JSON, pageInitData is the parsed object.
BadPayloadAffectsNothingElse ==
    \A r \in Requests :
        HasEnvelope(r)
        => IF PayloadText(page[r]) = "{\"game\":{\"id\":\"abc\",\"winner\":\"white\"}}"
           THEN gameData[r].pageInitData = ParsedValidPayload
           ELSE /\ gameData[r].pageInitData = JSNull
                /\ \A f \in Fragments(req[r].variant) \ {<<"pageInitData">>} :
                      FragmentAt(gameData[r], f)
                          = FragmentAt(Extract(req[r].variant, WithValidPayload(page[r])).value, f)

\* C14 (amended): as claimed, for every other fragment except
\* computedData.jsonScripts, which collects every inline script that parses
\* as JSON, the page-init-data script among them.
BadPayloadAffectsOnlyPayloadScans ==
    \A r \in Requests :
        HasEnvelope(r)
        => IF PayloadText(page[r]) = "{\"game\":{\"id\":\"abc\",\"winner\":\"white\"}}"
           THEN gameData[r].pageInitData = ParsedValidPayload
           ELSE /\ gameData[r].pageInitData = JSNull
                /\ \A f \in Fragments(req[r].variant)
                              \ {<<"pageInitData">>, <<"computedData", "jsonScripts">>} :
                      FragmentAt(gameData[r], f)
                          = FragmentAt(Extract(req[r].variant, WithValidPayload(page[r])).value, f)

\* Witness of C14: an envelope extracted from a page whose payload is not
\* valid JSON, with a null pageInitData beside the moves the page shows.
BadPayloadWitness ==
    \E r \in Requests :
        /\ HasEnvelope(r)
        /\ req[r].variant = "advanced"
        /\ PayloadText(page[r]) = InvalidInitText
        /\ gameData[r].pageInitData = JSNull
        /\ FragmentAt(gameData[r], <<"dom", "moves">>) = [present |-> TRUE, value |-> <<"e4", "e5">>]

\* The name of the global a script of the modelled requests sets to
\* { marker: true }; Undefined for the other scripts.
MarkerGlobalOf(script) ==
    CASE script = MarkerScript -> "__marker"
      [] script = PlainGlobalScript -> "marker"
      [] OTHER -> Undefined

\* The global-scan filters, as the specification words them.
BasicNameMatches(name) ==
    \/ \E kw \in {"lichess", "extension", "chess"} : Includes(name, kw)
    \/ StartsWith(name, "__")

AdvancedNameMatches(name) ==
    \/ \E kw \in {"lichess", "extension", "chess", "tool", "plugin"} :
          Includes(ToLowerCase(name), kw)
    \/ StartsWith(name, "_")

\* C15 (as claimed): when the customScript set a global to { marker: true },
\* the extensionData of the 200 response has that key with that value.
MarkerGlobalIsReported ==
    \A r \in Requests :
        (/\ Answered(r, 200)
         /\ req[r].variant = "advanced"
         /\ MarkerGlobalOf(req[r].customScript) # Undefined)
        => LET key == MarkerGlobalOf(req[r].customScript)
               extensionData == responses[r][1].body.data.extensionData
           IN  /\ key \in DOMAIN extensionData
               /\ extensionData[key] = [t |-> "object", v |-> "{marker:true}"]

\* C15 (amended): the key is reported, with that value, when its name passes
\* the global-scan filter, and is not reported otherwise.
MatchingMarkerGlobalIsReported ==
    \A r \in Requests :
        (/\ Answered(r, 200)
         /\ req[r].variant = "advanced"
         /\ MarkerGlobalOf(req[r].customScript) # Undefined)
        => LET key == MarkerGlobalOf(req[r].customScript)
               extensionData == responses[r][1].body.data.extensionData
           IN  IF AdvancedNameMatches(key)
               THEN /\ key \in DOMAIN extensionData
                    /\ extensionData[key] = [t |-> "object", v |-> "{marker:true}"]
               ELSE key \notin DOMAIN extensionData

\* Witness of C15: a 200 response reporting the global the script set.
MarkerGlobalWitness ==
    \E r \in Requests :
        /\ Answered(r, 200)
        /\ req[r].variant = "advanced"
        /\ req[r].customScript = MarkerScript
        /\ "__marker" \in DOMAIN responses[r][1].body.data.extensionData
        /\ responses[r][1].body.data.extensionData["__marker"].v = "{marker:true}"

\* The extensionData of an envelope as an object (the basic variant leaves
\* null when no global matched).
ExtensionDataOf(data) ==
    IF data.extensionData = JSNull THEN EmptyObject ELSE data.extensionData

\* The globals of the page whose read throws or whose value cannot be
\* serialized.
FailingGlobals(p) ==
    {p.window[i].key : i \in {j \in 1..Len(p.window) :
        \/ p.throws = "window." \o p.window[j].key
        \/ p.window[j].value = CircularLiteral}}

\* The same page with the failing globals removed.
WithoutFailingGlobals(p) ==
    [p EXCEPT !.window = SelectSeq(p.window, LAMBDA e : e.key \notin FailingGlobals(p)),
              !.throws = IF StartsWith(p.throws, "window.") THEN NoThrow ELSE p.throws]

\* C16 (as claimed): in an envelope extracted from a page where reading or
\* serializing a matching global fails, that global is not a key of
\* extensionData, and extensionData is otherwise what the page without that
\* global yields.
FailedGlobalIsSkipped ==
    \A r \in Requests :
        (HasEnvelope(r) /\ FailingGlobals(page[r]) # {})
        => /\ FailingGlobals(page[r]) \cap DOMAIN ExtensionDataOf(gameData[r]) = {}
           /\ ExtensionDataOf(gameData[r])
                  = ExtensionDataOf(Extract(req[r].variant, WithoutFailingGlobals(page[r])).value)

\* The names of the page's global bindings.
GlobalNames(p) == {p.window[i].key : i \in 1..Len(p.window)}

\* C17: in every envelope, each key of extensionData is the name of a global
\* binding of the page that matches the variant's keyword filter, and each
\* value is a JSON-serializable primitive or object (never a function, never
\* a circular object).
OnlyMatchingGlobalsAreReported ==
    \A r \in Requests :
        HasEnvelope(r)
        => \A key \in DOMAIN ExtensionDataOf(gameData[r]) :
              /\ key \in GlobalNames(page[r])
              /\ IF req[r].variant = "basic"
                 THEN BasicNameMatches(key)
                 ELSE AdvancedNameMatches(key)
              /\ ExtensionDataOf(gameData[r])[key].t \in {"object", "string", "number", "boolean"}
              /\ ExtensionDataOf(gameData[r])[key].v # CircularLiteral

\* Witness of C17: an envelope of the basic variant reporting matching
\* globals of a page that also has a serializable global outside the filter.
MatchingGlobalsWitness ==
    \E r \in Requests :
        /\ HasEnvelope(r)
        /\ req[r].variant = "basic"
        /\ "dataLayer" \in GlobalNames(page[r])
        /\ {"lichessTools", "__cfg"} \subseteq DOMAIN ExtensionDataOf(gameData[r])
        /\ "dataLayer" \notin DOMAIN ExtensionDataOf(gameData[r])

\* The text fields the custom-selector probe put in an envelope, each with the
\* tag and attributes of the element it was read from.
CustomTextFields(variant, data) ==
    IF variant = "basic"
    THEN IF "extensionElements" \in DOMAIN data.additionalData
         THEN {[tag |-> e.tagName, attributes |-> e.attributes, text |-> e.textContent] :
                  e \in {data.additionalData.extensionElements[i] :
                            i \in 1..Len(data.additionalData.extensionElements)}}
         ELSE {}
    ELSE UNION {{[tag |-> e.tag, attributes |-> e.attributes, text |-> e.text] :
                    e \in {data.dom[key][i] : i \in 1..Len(data.dom[key])}} :
                key \in {SelectorKey(extensionSelectors[i]) : i \in 1..Len(extensionSelectors)}
                        \cap DOMAIN data.dom}

\* C18: every text field the custom-selector probe produced is at most 500
\* characters long and is a prefix of the text of the element it was read
\* from, however long that text is.
CustomTextIsCapped ==
    \A r \in Requests :
        HasEnvelope(r)
        => \A field \in CustomTextFields(req[r].variant, gameData[r]) :
              /\ Len(field.text) <= 500
              /\ \E i \in 1..Len(page[r].dom) :
                    /\ page[r].dom[i].tagName = field.tag
                    /\ page[r].dom[i].attributes = field.attributes
                    /\ StartsWith(page[r].dom[i].textContent, field.text)

\* Witness of C18: a 200 response of the basic variant with a text field of
\* exactly 500 characters cut from a longer element text.
CappedTextWitness ==
    \E r \in Requests :
        /\ Answered(r, 200)
        /\ req[r].variant = "basic"
        /\ \E field \in CustomTextFields("basic", responses[r][1].body.data) :
              /\ Len(field.text) = 500
              /\ \E i \in 1..Len(page[r].dom) :
                    /\ page[r].dom[i].attributes = field.attributes
                    /\ Len(page[r].dom[i].textContent) > 500

\* The persisted items of the page whose lower-cased key contains one of
\* the storage keywords.
MatchingItems(p) ==
    {p.localStorage[i] : i \in {j \in 1..Len(p.localStorage) :
        \E kw \in {"lichess", "chess", "extension"} :
            Includes(ToLowerCase(p.localStorage[j].key), kw)}}

\* C19: in an envelope of the advanced variant, localStorage holds exactly
\* the matching persisted keys, each with its stored value; when storage is
\* inaccessible it is empty and every other fragment is what the page yields
\* with storage accessible.
StorageFragmentIsFiltered ==
    \A r \in Requests :
        (HasEnvelope(r) /\ req[r].variant = "advanced")
        => IF page[r].throws = "localStorage"
           THEN /\ gameData[r].localStorage = EmptyObject
                /\ \A f \in AdvancedFragments \ {<<"localStorage">>} :
                      FragmentAt(gameData[r], f)
                          = FragmentAt(AdvancedExtract(Healthy(page[r])).value, f)
           ELSE /\ DOMAIN gameData[r].localStorage = {item.key : item \in MatchingItems(page[r])}
                /\ \A item \in MatchingItems(page[r]) :
                      gameData[r].localStorage[item.key] = item.value

\* Witness of C19: an envelope whose localStorage holds the two matching keys
\* of a page that also persists a key outside the filter.
StorageWitness ==
    \E r \in Requests :
        /\ HasEnvelope(r)
        /\ req[r].variant = "advanced"
        /\ \E i \in 1..Len(page[r].localStorage) : page[r].localStorage[i].key = "theme"
        /\ DOMAIN gameData[r].localStorage = {"lichess.prefs", "Chess-Ext"}
        /\ gameData[r].localStorage["Chess-Ext"] = "on"

\* Witness of C19, storage inaccessible: an envelope with an empty
\* localStorage beside the players the page shows.
StorageInaccessibleWitness ==
    \E r \in Requests :
        /\ HasEnvelope(r)
        /\ req[r].variant = "advanced"
        /\ page[r].throws = "localStorage"
        /\ gameData[r].localStorage = EmptyObject
        /\ "players" \in DOMAIN gameData[r].dom

\* The inline script elements of the page (no src attribute) whose trimmed
\* content starts with '{' or '[' and parses as JSON, in document order.
InlineJsonScripts(p) ==
    SelectSeq(p.dom,
              LAMBDA el : /\ el.tagName = "SCRIPT"
                          /\ \A i \in 1..Len(el.attributes) : el.attributes[i].name # "src"
                          /\ LET content == Trim(el.textContent) IN
                             /\ Len(content) > 0
                             /\ SubSeq(content, 1, 1) \in {"{", "["}
                             /\ content \in DOMAIN JSONTexts)

\* C20: in an envelope of the advanced variant, computedData.jsonScripts is
\* the sequence, in document order, of the parsed values of the inline
\* scripts that start with '{' or '[' and parse as JSON; the other scripts
\* are skipped and drop nothing around them; the key is absent when no
\* script parsed.
JsonScriptsAreTheParsedInlineScripts ==
    \A r \in Requests :
        (HasEnvelope(r) /\ req[r].variant = "advanced")
        => LET scripts == InlineJsonScripts(page[r]) IN
           IF scripts = <<>>
           THEN "jsonScripts" \notin DOMAIN gameData[r].computedData
           ELSE /\ "jsonScripts" \in DOMAIN gameData[r].computedData
                /\ Len(gameData[r].computedData.jsonScripts) = Len(scripts)
                /\ \A i \in 1..Len(scripts) :
                      gameData[r].computedData.jsonScripts[i]
                          = JSONTexts[Trim(scripts[i].textContent)]

\* Witness of C20: an envelope whose jsonScripts holds the scripts parsed
\* before and after a script that fails to parse, a script with src and a
\* script holding a number.
JsonScriptsWitness ==
    \E r \in Requests :
        /\ HasEnvelope(r)
        /\ req[r].variant = "advanced"
        /\ \E i \in 1..Len(page[r].dom) : page[r].dom[i].textContent = "{broken"
        /\ "jsonScripts" \in DOMAIN gameData[r].computedData
        /\ gameData[r].computedData.jsonScripts
              = << [game |-> [id |-> "abc", winner |-> "white"]],
                   [array |-> <<1, 2>>],
                   [id |-> "abc"] >>

\* Witness of C20, no script parsed: an envelope without the key.
NoJsonScriptsWitness ==
    \E r \in Requests :
        /\ HasEnvelope(r)
        /\ req[r].variant = "advanced"
        /\ InlineJsonScripts(page[r]) = <<>>
        /\ "jsonScripts" \notin DOMAIN gameData[r].computedData

SettleDelayIsPositive ==
    \A r \in Requests :
        req[r].variant = "advanced"
        => \A i \in 1..Len(log[r]) :
              log[r][i].call = "waitForTimeout"
              => LET ms == log[r][i].ms
                     supplied == IF ~Absent(req[r].queryWaitTime) THEN req[r].queryWaitTime
                                 ELSE req[r].bodyWaitTime
                 IN  /\ ~ms.nan
                     /\ ms.n > 0
                     /\ Absent(supplied) => ms.n \in 3000..5000
                     /\ supplied = "2000" => ms.n = 2000

\* C23: an OPTIONS request, once handled, has been answered with HTTP 204
\* carrying the three preflight headers, with or without a gameId, and
\* nothing was asked of the renderer.
PreflightIsAnswered ==
    \A r \in Requests :
        (req[r].method = "OPTIONS" /\ pc[r] # "start")
        => /\ Answered(r, 204)
           /\ {<<"Access-Control-Allow-Methods", "GET, POST">>,
               <<"Access-Control-Allow-Headers", "Content-Type">>,
               <<"Access-Control-Max-Age", "3600">>} \subseteq responses[r][1].headers
           /\ pc[r] = "done"
           /\ log[r] = <<Sent(204)>>
           /\ renderer[r] = "none"
           /\ page[r] = NoPage

\* Witness of C23: an OPTIONS request without a gameId answered with 204.
PreflightWitness ==
    \E r \in Requests :
        /\ req[r].method = "OPTIONS"
        /\ Absent(req[r].queryGameId)
        /\ Answered(r, 204)
        /\ renderer[r] = "none"

\* C24: every response sent, whatever its status, carries the header
\* Access-Control-Allow-Origin: *.
EveryResponseAllowsAnyOrigin ==
    \A r \in Requests :
        \A i \in 1..Len(responses[r]) :
            /\ responses[r][i].status \in {204, 400, 200, 500}
            /\ <<"Access-Control-Allow-Origin", "*">> \in responses[r][i].headers

\* Witness of C24: a 500 response, sent from the catch block, with the header.
ErrorResponseAllowsAnyOriginWitness ==
    \E r \in Requests :
        /\ Answered(r, 500)
        /\ <<"Access-Control-Allow-Origin", "*">> \in responses[r][1].headers

\* C25: two concurrent requests share no mutable state.  A step of one
\* request leaves the other's handler state, renderer, page, data, log and
\* responses as they were; the browsers two requests hold are different
\* processes; and each response carries the gameId of its own request and,
\* on success, the data extracted from its own page.
RequestsShareNothing ==
    [][\A r \in Requests :
          /\ pc'[r] = pc[r]
             => /\ headers'[r] = headers[r] /\ browser'[r] = browser[r]
                /\ renderer'[r] = renderer[r] /\ page'[r] = page[r]
                /\ gameData'[r] = gameData[r] /\ error'[r] = error[r]
                /\ log'[r] = log[r] /\ responses'[r] = responses[r]
          /\ \A q \in Requests \ {r} :
                browser'[r] # NoBrowser => browser'[q] # browser'[r]
          /\ \A i \in 1..Len(responses'[r]) :
                responses'[r][i].status \in {200, 500}
                => /\ responses'[r][i].body.gameId = GameIdOf(req[r])
                   /\ responses'[r][i].status = 200
                      => /\ responses'[r][i].body.data = gameData'[r]
                         /\ page'[r].url = UrlOf(req[r])
                         /\ gameData'[r].pageInitData
                                = Extract(req[r].variant, page'[r]).value.pageInitData]_vars

\* Witness of C25: both requests are in flight; request 1 was answered 500
\* after a fault and its renderer is closed, while request 2 holds its own
\* open renderer and the page of its own game, about to be extracted.
ConcurrentWitness ==
    /\ Requests = {1, 2}
    /\ Answered(1, 500)
    /\ Throws(1) # <<>>
    /\ renderer[1] = "closed"
    /\ pc[2] = "evaluate"
    /\ browser[2] = BrowserOf(2)
    /\ renderer[2] = "open"
    /\ page[2].url = "https://lichess.org/xyz789"


\* What the claim calls the response's parsed body, when there is one.
ResponseOf(call) == ParseBody(call.outcome.body)

FetchFailed(call) ==
    \/ call.outcome.threw
    \/ call.outcome.status # 200
    \/ ResponseOf(call).threw
    \/ /\ Has(ResponseOf(call).value, "success")
       /\ ~ResponseOf(call).value.success

FetchSucceeded(call) ==
    /\ call.called
    /\ ~call.outcome.threw
    /\ call.outcome.status = 200
    /\ ~ResponseOf(call).threw
    /\ Has(ResponseOf(call).value, "success")
    /\ ResponseOf(call).value.success

\* C26: fetchLichessGameWithExtensions never throws; with an empty game id
\* it returns null without calling the Cloud Function; it returns null when
\* the fetch throws, the status is not 200, the body is not parseable JSON or
\* success is false; and whenever it returns something other than null, the
\* status was 200, success was true and the value is the response's data.
FetchNeverThrows ==
    \A i \in 1..Len(fetches) :
        LET call == fetches[i] IN
        /\ ~call.threw
        /\ call.gameId = "" => ~call.called /\ call.value = JSNull
        /\ call.called /\ FetchFailed(call) => call.value = JSNull
        /\ call.value # JSNull =>
                FetchSucceeded(call) /\ call.value = ResponseOf(call).value.data

\* A batch whose first fetch threw and whose second returned the data.
FetchNeverThrowsWitness ==
    /\ Len(fetches) >= 2
    /\ fetches[1].called /\ fetches[1].outcome.threw /\ fetches[1].value = JSNull
    /\ fetches[2].called /\ FetchSucceeded(fetches[2]) /\ fetches[2].value # JSNull

\* A direct call with no game id returned null and fetched nothing.
NoGameIdWitness ==
    /\ Len(fetches) = 1
    /\ fetches[1].gameId = ""
    /\ ~fetches[1].called
    /\ spc = "returned"

\* The sans of the entries joined by single spaces.
RECURSIVE JoinSans(_)
JoinSans(moves) ==
    IF Len(moves) = 0 THEN ""
    ELSE IF Len(moves) = 1 THEN moves[1].san
    ELSE moves[1].san \o " " \o JoinSans(Tail(moves))

MoveStringOf(data) ==
    IF Has(GameOf(data), "moves") THEN GameOf(data).moves ELSE ""

ClocksOf(data) ==
    IF Has(GameOf(data), "clocks") THEN GameOf(data).clocks ELSE <<>>

EvaluationsOf(data) ==
    IF Has(data, "dom") /\ Has(data.dom, "evaluations") THEN data.dom.evaluations ELSE <<>>

\* C27: extractMoves has one entry per space-separated token of
\* pageInitData.game.moves, each with number, color, move and san, in
\* order (the entries' tokens joined by spaces
\* are the moves string and no token holds a space); entry i (from 0) has
\* number floor(i/2)+1 and color white for even i, black for odd i; entry i
\* carries clock i and evaluation i exactly when they exist; clocks and
\* evaluations beyond the moves add nothing; with no moves string the
\* result is empty.
MovesMergeByIndex ==
    organized # JSNull =>
        LET moves == organized.moves
            clocks == ClocksOf(rawData)
            evaluations == EvaluationsOf(rawData)
        IN  /\ \A i \in 1..Len(moves) :
                  {"number", "color", "move", "san"} \subseteq DOMAIN moves[i]
            /\ JoinSans(moves) = MoveStringOf(rawData)
            /\ MoveStringOf(rawData) = "" => moves = <<>>
            /\ \A i \in 1..Len(moves) :
                  /\ ~Includes(moves[i].san, " ")
                  /\ moves[i].san # ""
                  /\ moves[i].move = moves[i].san
                  /\ moves[i].number = ((i - 1) \div 2) + 1
                  /\ moves[i].color = (IF (i - 1) % 2 = 0 THEN "white" ELSE "black")
                  /\ "clockSeconds" \in DOMAIN moves[i] <=> i <= Len(clocks)
                  /\ i <= Len(clocks) => moves[i].clockSeconds = clocks[i]
                  /\ "evaluation" \in DOMAIN moves[i] <=> i <= Len(evaluations)
                  /\ i <= Len(evaluations) => moves[i].evaluation = evaluations[i].eval

\* Three moves were merged with five clocks and four evaluations.
MovesMergeWitness ==
    /\ organized # JSNull
    /\ Len(organized.moves) = 3
    /\ Len(ClocksOf(rawData)) = 5
    /\ Len(EvaluationsOf(rawData)) = 4
    /\ organized.moves[3].clockSeconds = 295

\* Clocks and evaluations without a moves string gave no entry.
NoMovesWitness ==
    /\ organized # JSNull
    /\ organized.moves = <<>>
    /\ Len(ClocksOf(rawData)) = 1
    /\ Len(EvaluationsOf(rawData)) = 4

OrganizedKeys ==
    {"gameId", "basicInfo", "moves", "analysis", "playerInfo", "extensionData",
     "timing", "opening"}

\* C28: for every envelope fetchLichessGameWithExtensions returns,
\* fetchLichessToolsData returns an object with all of its fixed keys, and
\* writeOrganizedDataToSheet raises no TypeError on it: neither the batch
\* log nor the error that ended a direct call reports one, and once the
\* write has returned the basic-info row of the game is in the sheet.
EveryEnvelopeIsWritten ==
    /\ rawData # JSNull => organized # JSNull /\ DOMAIN organized = OrganizedKeys
    /\ ~Includes(uncaught, "TypeError")
    /\ \A i \in 1..Len(logger) : ~Includes(logger[i], "TypeError")
    /\ rawData # JSNull /\ spc \in {"sleep", "returned"} =>
            sheets["Basic Info"] # <<>>

\* The "Processing game" lines of the log, in order.
ProcessingLines == SelectSeq(logger, LAMBDA line : Includes(line, "Processing game "))

AttemptLine(i) ==
    "Processing game " \o ToString(i) \o "/" \o ToString(Len(gameIds)) \o ": " \o gameIds[i]

\* The games attempted so far are the first ones of the list, in list order.
AttemptsInListOrder ==
    /\ Len(ProcessingLines) <= Len(gameIds)
    /\ \A i \in 1..Len(ProcessingLines) : ProcessingLines[i] = AttemptLine(i)

BatchComplete ==
    /\ spc = "complete"
    /\ Len(ProcessingLines) = Len(gameIds)
    /\ logger[Len(logger)] = "Batch processing complete!"

\* C29: analyzeMultipleGames attempts the game ids in list order; no fault
\* ends the batch (it is caught and logged); and the batch always reaches
\* its completion log, every game having been attempted.
BatchAttemptsEveryGame ==
    /\ [](InBatch => AttemptsInListOrder /\ uncaught = "" /\ spc # "threw")
    /\ (InBatch ~> BatchComplete)

\* The batch completed although the first game failed in the fetch and the
\* second in the write; the third was written.
BatchWitness ==
    /\ InBatch
    /\ BatchComplete
    /\ fetches[1].outcome.threw
    /\ \E i \in 1..Len(logger) : Includes(logger[i], "Error processing GAME_ID_2")
    /\ \E i \in 1..Len(sheets["Basic Info"]) : fetches[3].value # JSNull
    /\ logger[Len(logger) - 1] = "Data written to sheets successfully!"

DeployRan ==
    \E i \in 1..Len(commands) : SubSeq(commands[i].words, 1, 3) = <<"gcloud", "functions", "deploy">>

FileChanged ==
    \E i \in 1..Len(commands) : commands[i].words[1] = "mv" /\ commands[i].status = 0

Declined == "CONFIRM" \in DOMAIN env /\ env.CONFIRM # "y"

\* C30: gcloud functions deploy runs only after gcloud was found, a
\* non-empty project id was entered and the answer at the confirmation
\* prompt was exactly y; after any other answer the script has exited with
\* status 0, has not deployed and has renamed no file.
DeployOnlyAfterConfirmation ==
    /\ DeployRan =>
            /\ "gcloud" \in DOMAIN files
            /\ "PROJECT_ID" \in DOMAIN env /\ env.PROJECT_ID # ""
            /\ "CONFIRM" \in DOMAIN env /\ env.CONFIRM = "y"
    /\ Declined =>
            /\ shpc = "exited" /\ exitStatus = 0
            /\ ~DeployRan
            /\ ~FileChanged
====
